---------------------------- MODULE Spec2Model ----------------------------
(***************************************************************************)
(* A model of the semantic-analysis core of neo3-boa: the TypeAnalyser     *)
(* walk over a Python AST (boa3/analyser/typeanalyser.py), its diagnostic  *)
(* sink and symbol resolver (boa3/analyser/astanalyser.py).                *)
(*                                                                         *)
(* Python values are records with a field k naming their runtime class.    *)
(* AST nodes are records with a field kind.  The source coordinates        *)
(* (lineno, col_offset) of a node are modelled by the path of the node     *)
(* from the module root, a sequence of naturals.                           *)
(***************************************************************************)
EXTENDS Integers, Sequences, FiniteSets, TLC

VARIABLES
    tree,            \* self._tree: the body of the ast.Module, rewritten in place
    symbols,         \* self.symbols: the global symbol table
    modules,         \* self.modules
    current_method,  \* self.__current_method
    errors,          \* self.errors
    warnings,        \* self.warnings
    pc,              \* position of the walk: where, index of the top-level statement, index in the body
    raised,          \* the exception that left the constructor, NoExc while there is none
    visited,         \* history: coordinates of the statements whose visit has begun
    run,             \* history: 1 for the first analysis of the tree, 2 for a re-analysis
    tree0,           \* history: the tree as it was handed to the first analysis
    tree1,           \* history: the tree as the first analysis left it
    query,           \* the identifier given to get_symbol
    result           \* the value get_symbol returned

vars == <<tree, symbols, modules, current_method, errors, warnings, pc, raised,
          visited, run, tree0, tree1, query, result>>

-----------------------------------------------------------------------------
(* Python values *)

None == [k |-> "NoneType"]
PyInt == [k |-> "int"]
PyBool == [k |-> "bool"]
PyStr == [k |-> "str"]
PyTuple == [k |-> "tuple"]
IType(id) == [k |-> "IType", id |-> id]
Expression(type) == [k |-> "Expression", type |-> type]
Module(name) == [k |-> "Module", name |-> name]
Method(name, return_type, locals) ==
    [k |-> "Method", name |-> name, return_type |-> return_type, symbols |-> locals]

(* The empty dictionary *)
EmptyDict == [id \in {} |-> None]

-----------------------------------------------------------------------------
(* Diagnostics and exceptions *)

Error(kind, pos, info) == [kind |-> kind, pos |-> pos, info |-> info]
NoExc == [kind |-> "none"]
NotImplementedError == [kind |-> "NotImplementedError"]

(* The outcome of a visit: the value returned, the entries appended to      *)
(* self.errors, the exception that left the visit, and the node as the      *)
(* visit left it.                                                           *)
Returned(val, node) == [val |-> val, errs |-> <<>>, exc |-> NoExc, node |-> node]
Raised(errs, exc, node) == [val |-> None, errs |-> errs, exc |-> exc, node |-> node]

(* IAstAnalyser.has_errors, of the errors list *)
has_errors(errs) == Len(errs) > 0

(* list.append put at the front instead of the end *)
append_at_front(list, entry) == <<entry>> \o list

(* self.errors.append(error): the only statement that changes self.errors *)
append(list, entry) == Append(list, entry)

(* TypeAnalyser._log_error: append the error, then raise it *)
_log_error(errs, error, node) == Raised(append(errs, error), error, node)

-----------------------------------------------------------------------------
(* Operator vocabulary and operation registry *)

(* TypeAnalyser.__operators: Python ast operator class -> Operator *)
operators ==
    [Add |-> "Plus", Sub |-> "Minus", Mult |-> "Mult", FloorDiv |-> "IntDiv",
     Mod |-> "Mod", UAdd |-> "Plus", USub |-> "Minus", Eq |-> "Eq",
     NotEq |-> "NotEq", Lt |-> "Lt", LtE |-> "LtE", Gt |-> "Gt", GtE |-> "GtE",
     Is |-> "Is", IsNot |-> "IsNot", And |-> "And", Or |-> "Or", Not |-> "Not"]

NoneOperator == "None"

(* An operator slot of the AST holds a Python ast operator object, an       *)
(* Operator of the vocabulary, an Operation of the registry, or None.       *)
AstOp(name) == [tag |-> "ast", name |-> name]
OperatorOp(name) == [tag |-> "Operator", name |-> name]
OperationOp(name) == [tag |-> "Operation", name |-> name]
NoneSlot == [tag |-> "None", name |-> "NoneType"]

(* The binary operations of the registry *)
BinaryOperation ==
    [Addition       |-> [operator |-> "Plus",  left |-> "int",  right |-> "int",  result |-> "int",  is_supported |-> TRUE],
     Concat         |-> [operator |-> "Plus",  left |-> "str",  right |-> "str",  result |-> "str",  is_supported |-> FALSE],
     Subtraction    |-> [operator |-> "Minus", left |-> "int",  right |-> "int",  result |-> "int",  is_supported |-> TRUE],
     Multiplication |-> [operator |-> "Mult",  left |-> "int",  right |-> "int",  result |-> "int",  is_supported |-> TRUE],
     IntDivision    |-> [operator |-> "IntDiv", left |-> "int", right |-> "int",  result |-> "int",  is_supported |-> TRUE],
     Modulo         |-> [operator |-> "Mod",   left |-> "int",  right |-> "int",  result |-> "int",  is_supported |-> TRUE],
     NumEq          |-> [operator |-> "Eq",    left |-> "int",  right |-> "int",  result |-> "bool", is_supported |-> FALSE],
     NumNotEq       |-> [operator |-> "NotEq", left |-> "int",  right |-> "int",  result |-> "bool", is_supported |-> TRUE],
     LessThan       |-> [operator |-> "Lt",    left |-> "int",  right |-> "int",  result |-> "bool", is_supported |-> TRUE],
     LessThanOrEqual |-> [operator |-> "LtE",  left |-> "int",  right |-> "int",  result |-> "bool", is_supported |-> TRUE],
     GreaterThan    |-> [operator |-> "Gt",    left |-> "int",  right |-> "int",  result |-> "bool", is_supported |-> TRUE],
     GreaterThanOrEqual |-> [operator |-> "GtE", left |-> "int", right |-> "int", result |-> "bool", is_supported |-> TRUE],
     Identity       |-> [operator |-> "Is",    left |-> "int",  right |-> "int",  result |-> "bool", is_supported |-> FALSE],
     NotIdentity    |-> [operator |-> "IsNot", left |-> "int",  right |-> "int",  result |-> "bool", is_supported |-> FALSE],
     BoolAnd        |-> [operator |-> "And",   left |-> "bool", right |-> "bool", result |-> "bool", is_supported |-> TRUE],
     BoolOr         |-> [operator |-> "Or",    left |-> "bool", right |-> "bool", result |-> "bool", is_supported |-> TRUE]]

(* The operations registered under each binary operator, in order *)
BinaryOp_operations(operator) ==
    CASE operator = "Plus"  -> <<"Addition", "Concat">>
      [] operator = "Minus" -> <<"Subtraction">>
      [] operator = "Mult"  -> <<"Multiplication">>
      [] operator = "IntDiv" -> <<"IntDivision">>
      [] operator = "Mod"   -> <<"Modulo">>
      [] operator = "Eq"    -> <<"NumEq">>
      [] operator = "NotEq" -> <<"NumNotEq">>
      [] operator = "Lt"    -> <<"LessThan">>
      [] operator = "LtE"   -> <<"LessThanOrEqual">>
      [] operator = "Gt"    -> <<"GreaterThan">>
      [] operator = "GtE"   -> <<"GreaterThanOrEqual">>
      [] operator = "Is"    -> <<"Identity">>
      [] operator = "IsNot" -> <<"NotIdentity">>
      [] operator = "And"   -> <<"BoolAnd">>
      [] operator = "Or"    -> <<"BoolOr">>
      [] OTHER -> <<>>

(* Concat.validate_type with the equality of the operand types negated *)
Concat_validate_type_distinct(types) ==
    IF Len(types) # 2 THEN FALSE
    ELSE types[1] # types[2] /\ types[1] \in {"str"}

(* Concat.validate_type: two operand types, equal, and in _valid_types *)
Concat_validate_type(types) ==
    IF Len(types) # 2 THEN FALSE
    ELSE types[1] = types[2] /\ types[1] \in {"str"}

(* Concat._get_result without the validation of the operand types *)
Concat_get_result_unchecked(left, right) == left

(* Concat._get_result: the left type when the types validate, Type.none     *)
(* otherwise                                                                *)
Concat_get_result(left, right) ==
    IF Concat_validate_type(<<left, right>>) THEN left ELSE "none"

(* validate_type of an operation of the registry *)
Operation_validate_type(name, types) ==
    IF name = "Concat" THEN Concat_validate_type(types)
    ELSE /\ Len(types) = 2
         /\ types[1] = BinaryOperation[name].left
         /\ types[2] = BinaryOperation[name].right

(* BinaryOp.validate_type: the first operation registered under the         *)
(* operator whose validate_type accepts the types, None when there is none  *)
BinaryOp_validate_type(operator, l_type, r_type) ==
    LET ops == BinaryOp_operations(operator)
        ok == {i \in 1..Len(ops) : Operation_validate_type(ops[i], <<l_type, r_type>>)}
    IN IF ok = {} THEN NoneOperator
       ELSE ops[CHOOSE i \in ok : \A j \in ok : i <= j]

(* BinaryOp.get_operation_by_operator: the first operation registered *)
BinaryOp_get_operation_by_operator(operator) == BinaryOp_operations(operator)[1]

(* The unary operations of the registry *)
UnaryOperation ==
    [Positive |-> [operator |-> "Plus",  operand |-> "int",  result |-> "int",  is_supported |-> TRUE],
     Negative |-> [operator |-> "Minus", operand |-> "int",  result |-> "int",  is_supported |-> TRUE],
     LogicNot |-> [operator |-> "Not",   operand |-> "bool", result |-> "bool", is_supported |-> TRUE]]

UnaryOp_operations(operator) ==
    CASE operator = "Plus"  -> <<"Positive">>
      [] operator = "Minus" -> <<"Negative">>
      [] operator = "Not"   -> <<"LogicNot">>
      [] OTHER -> <<>>

UnaryOp_validate_type(operator, op_type) ==
    LET ops == UnaryOp_operations(operator)
        ok == {i \in 1..Len(ops) : UnaryOperation[ops[i]].operand = op_type}
    IN IF ok = {} THEN NoneOperator
       ELSE ops[CHOOSE i \in ok : \A j \in ok : i <= j]

UnaryOp_get_operation_by_operator(operator) == UnaryOp_operations(operator)[1]

(* TypeAnalyser.get_operator *)
get_operator(node) ==
    IF node.tag = "Operator" THEN node.name
    ELSE IF node.tag = "ast" /\ node.name \in DOMAIN operators THEN operators[node.name]
    ELSE NoneOperator

-----------------------------------------------------------------------------
(* Symbol resolver and type lattice *)

(* get_symbol with the global scope searched before the modules scope *)
get_symbol_globals_first(cm, symbol_id) ==
    IF cm # None /\ symbol_id \in DOMAIN cm.symbols THEN cm.symbols[symbol_id]
    ELSE IF symbol_id \in DOMAIN symbols THEN symbols[symbol_id]
    ELSE IF symbol_id \in DOMAIN modules THEN modules[symbol_id]
    ELSE None

(* TypeAnalyser.get_symbol, with self.__current_method as a parameter *)
get_symbol(cm, symbol_id) ==
    IF cm # None /\ symbol_id \in DOMAIN cm.symbols THEN cm.symbols[symbol_id]
    ELSE IF symbol_id \in DOMAIN modules THEN modules[symbol_id]
    ELSE IF symbol_id \in DOMAIN symbols THEN symbols[symbol_id]
    ELSE None

(* Type.get_type: the built-in type whose is_type_of accepts the value,     *)
(* none when there is no such type                                          *)
Type_get_type(value) ==
    CASE value.k = "int"  -> "int"
      [] value.k = "bool" -> "bool"
      [] value.k = "str"  -> "str"
      [] OTHER -> "none"

(* IAstAnalyser.get_type.  The only AST node a visitor returns is a Name    *)
(* (visit_Name); visiting it again returns it, and its id is resolved with  *)
(* get_symbol.                                                              *)
get_type(cm, v) ==
    LET value == IF v.k = "Name" THEN get_symbol(cm, v.id) ELSE v
    IN IF value.k = "IType" THEN value.id
       ELSE IF value.k = "Expression" THEN value.type
       ELSE Type_get_type(value)

(* IAstAnalyser.get_type on a node of the tree, from the value the visit of *)
(* the node returned: a Name is replaced by its id, a str is looked up with *)
(* get_symbol, and the value found is typed as any other value              *)
get_type_visited(cm, fun_rtype_id) ==
    LET id == IF fun_rtype_id.k = "Name" THEN [k |-> "str", s |-> fun_rtype_id.id]
              ELSE fun_rtype_id
    IN get_type(cm, IF id.k = "str" THEN get_symbol(cm, id.s) ELSE id)

(* IType.abi_type: Any by default *)
IType_abi_type == "Any"

(* IntType.__init__: the identifier *)
IntType_identifier == "int"

(* IntType.abi_type *)
IntType_abi_type == "Integer"

(* is_type_of as isinstance(value, int), which a bool satisfies as well *)
IntType_is_type_of_isinstance(value) == value.k \in {"int", "bool"}

(* IntType.is_type_of: type(value) == int, with value.k the runtime type of *)
(* the value                                                                *)
IntType_is_type_of(value) == value.k = "int"

(* IntType.build: Type.int when the value is of the type, None otherwise *)
IntType_build(value) == IF IntType_is_type_of(value) THEN IType(IntType_identifier) ELSE None

(* SequenceType: the sequence types of the lattice, each with its           *)
(* value_type and its valid_key                                             *)
SequenceType ==
    ("sequence[int]" :> [value_type |-> "int", valid_key |-> "int"])
    @@ ("sequence[str]" :> [value_type |-> "str", valid_key |-> "int"])

(* SequenceType.is_valid_key: the type is the declared key type *)
is_valid_key(sequence, type) == type = SequenceType[sequence].valid_key

(* TypeAnalyser.get_bin_op: the operation, or NoneOperator with the         *)
(* arguments of the MismatchedTypes it raises                               *)
get_bin_op(cm, operator, right, left) ==
    LET l_type == get_type(cm, left)
        r_type == get_type(cm, right)
        operation == BinaryOp_validate_type(operator, l_type, r_type)
    IN IF operation # NoneOperator
       THEN [operation |-> operation, info |-> <<>>]
       ELSE LET expected_op == BinaryOperation[BinaryOp_get_operation_by_operator(operator)]
            IN [operation |-> NoneOperator,
                info |-> [expected |-> <<expected_op.left, expected_op.right>>,
                          actual |-> <<l_type, r_type>>]]

(* TypeAnalyser.get_un_op *)
get_un_op(cm, operator, operand) ==
    LET op_type == get_type(cm, operand)
        operation == UnaryOp_validate_type(operator, op_type)
    IN IF operation # NoneOperator
       THEN [operation |-> operation, info |-> <<>>]
       ELSE LET expected_op == UnaryOperation[UnaryOp_get_operation_by_operator(operator)]
            IN [operation |-> NoneOperator,
                info |-> [expected |-> <<expected_op.operand>>, actual |-> <<op_type>>]]

-----------------------------------------------------------------------------
(* AST nodes *)

Absent == [kind |-> "Absent"]
Name(id) == [kind |-> "Name", id |-> id]
Num(n) == [kind |-> "Num", n |-> n]
Str(s) == [kind |-> "Str", s |-> s]
NameConstant(value) == [kind |-> "NameConstant", value |-> value]
Tuple(elts) == [kind |-> "Tuple", elts |-> elts]
BinOp(left, op, right) == [kind |-> "BinOp", left |-> left, op |-> AstOp(op), right |-> right]
UnaryOp(op, operand) == [kind |-> "UnaryOp", op |-> AstOp(op), operand |-> operand]
Compare(left, ops, comparators) ==
    [kind |-> "Compare", left |-> left,
     ops |-> [i \in DOMAIN ops |-> AstOp(ops[i])], comparators |-> comparators]
BoolOp(op, values) == [kind |-> "BoolOp", op |-> AstOp(op), values |-> values]
IfExp(test, body, orelse) == [kind |-> "IfExp", test |-> test, body |-> body, orelse |-> orelse]
Expr(value) == [kind |-> "Expr", value |-> value]
Return(value) == [kind |-> "Return", value |-> value]
Assign(targets, value) == [kind |-> "Assign", targets |-> targets, value |-> value]
While(test, body, orelse) == [kind |-> "While", test |-> test, body |-> body, orelse |-> orelse]
If(test, body, orelse) == [kind |-> "If", test |-> test, body |-> body, orelse |-> orelse]
Break == [kind |-> "Break"]
Continue == [kind |-> "Continue"]
arg(name, annotation) == [kind |-> "arg", arg |-> name, annotation |-> annotation]
Subscript(value, slice) == [kind |-> "Subscript", value |-> value, slice |-> slice]
Index(value) == [kind |-> "Index", value |-> value]
FunctionDef(name, args, returns, body) ==
    [kind |-> "FunctionDef", name |-> name, args |-> args, returns |-> returns, body |-> body]

-----------------------------------------------------------------------------
(* The visitors.  visit(cm, node, pos) is NodeVisitor.visit on the node at  *)
(* coordinates pos while self.__current_method is cm.                       *)

RECURSIVE visit(_, _, _)
RECURSIVE compare_ops(_, _, _, _, _, _, _)
RECURSIVE bool_values(_, _, _, _, _, _, _)
RECURSIVE visit_list(_, _, _, _)

(* TypeAnalyser.__current_method_id *)
current_method_id(cm) ==
    IF \E id \in DOMAIN symbols : symbols[id] = cm
    THEN CHOOSE id \in DOMAIN symbols : symbols[id] = cm
    ELSE "None"

(* TypeAnalyser.visit_Num *)
visit_Num(cm, num, pos) ==
    IF num.n # "int"
    THEN _log_error(<<>>, Error("InvalidType", pos, <<num.n>>), num)
    ELSE Returned(PyInt, num)

(* TypeAnalyser.visit_Str *)
visit_Str(cm, str, pos) == Returned([k |-> "str", s |-> str.s], str)

(* TypeAnalyser.visit_Tuple: the element nodes, not visited *)
visit_Tuple(cm, tup_node, pos) == Returned(PyTuple, tup_node)

(* TypeAnalyser.visit_NameConstant *)
visit_NameConstant(cm, constant, pos) ==
    Returned(IF constant.value = "None" THEN None ELSE PyBool, constant)

(* TypeAnalyser.visit_Name *)
visit_Name(cm, name, pos) == Returned([k |-> "Name", id |-> name.id], name)

(* validate_if with a test of type int accepted as well *)
validate_if_int_accepted(cm, if_node, pos) ==
    LET test == visit(cm, if_node.test, pos \o <<0>>)
        node == [if_node EXCEPT !.test = test.node]
    IN IF test.exc # NoExc THEN Raised(test.errs, test.exc, node)
       ELSE LET test_type == get_type(cm, test.val)
            IN IF test_type \notin {"bool", "int"}
               THEN _log_error(<<>>, Error("MismatchedTypes", pos,
                                           [expected |-> <<"bool">>, actual |-> <<test_type>>]), node)
               ELSE Returned(None, node)

(* TypeAnalyser.validate_if *)
validate_if(cm, if_node, pos) ==
    LET test == visit(cm, if_node.test, pos \o <<0>>)
        node == [if_node EXCEPT !.test = test.node]
    IN IF test.exc # NoExc THEN Raised(test.errs, test.exc, node)
       ELSE LET test_type == get_type(cm, test.val)
            IN IF test_type # "bool"
               THEN _log_error(<<>>, Error("MismatchedTypes", pos,
                                           [expected |-> <<"bool">>, actual |-> <<test_type>>]), node)
               ELSE Returned(None, node)

(* TypeAnalyser.visit_IfExp *)
visit_IfExp(cm, if_node, pos) == validate_if(cm, if_node, pos)

(* visit_BinOp without the assignment of the operation to bin_op.op *)
visit_BinOp_slot_kept(cm, bin_op, pos) ==
    LET operator == get_operator(bin_op.op)
        r_operand == visit(cm, bin_op.right, pos \o <<2>>)
        n1 == [bin_op EXCEPT !.right = r_operand.node]
    IN IF r_operand.exc # NoExc THEN Raised(r_operand.errs, r_operand.exc, n1)
       ELSE
       LET l_operand == visit(cm, bin_op.left, pos \o <<1>>)
           n2 == [n1 EXCEPT !.left = l_operand.node]
       IN IF l_operand.exc # NoExc THEN Raised(l_operand.errs, l_operand.exc, n2)
          ELSE IF operator = NoneOperator
          THEN _log_error(<<>>, Error("UnresolvedReference", pos, <<bin_op.op.name>>), n2)
          ELSE
          LET got == get_bin_op(cm, operator, r_operand.val, l_operand.val)
          IN IF got.operation = NoneOperator
             THEN _log_error(<<>>, Error("MismatchedTypes", pos, got.info), n2)
             ELSE IF ~BinaryOperation[got.operation].is_supported
             THEN _log_error(<<>>, Error("NotSupportedOperation", pos, <<operator>>), n2)
             ELSE Returned(IType(BinaryOperation[got.operation].result), n2)

(* TypeAnalyser.visit_BinOp *)
visit_BinOp(cm, bin_op, pos) ==
    LET operator == get_operator(bin_op.op)
        r_operand == visit(cm, bin_op.right, pos \o <<2>>)
        n1 == [bin_op EXCEPT !.right = r_operand.node]
    IN IF r_operand.exc # NoExc THEN Raised(r_operand.errs, r_operand.exc, n1)
       ELSE
       LET l_operand == visit(cm, bin_op.left, pos \o <<1>>)
           n2 == [n1 EXCEPT !.left = l_operand.node]
       IN IF l_operand.exc # NoExc THEN Raised(l_operand.errs, l_operand.exc, n2)
          ELSE IF operator = NoneOperator
          THEN _log_error(<<>>, Error("UnresolvedReference", pos, <<bin_op.op.name>>), n2)
          ELSE
          LET got == get_bin_op(cm, operator, r_operand.val, l_operand.val)
          IN IF got.operation = NoneOperator
             THEN \* get_bin_op raised MismatchedTypes(0, 0, ...): caught and logged with the node's coordinates
                  _log_error(<<>>, Error("MismatchedTypes", pos, got.info), n2)
             ELSE IF ~BinaryOperation[got.operation].is_supported
             THEN _log_error(<<>>, Error("NotSupportedOperation", pos, <<operator>>), n2)
             ELSE Returned(IType(BinaryOperation[got.operation].result),
                           [n2 EXCEPT !.op = OperationOp(got.operation)])

(* visit_UnaryOp putting the operation expected for the operator in the     *)
(* slot when the operand's type does not match                              *)
visit_UnaryOp_recovers(cm, un_op, pos) ==
    LET operator == get_operator(un_op.op)
        operand == visit(cm, un_op.operand, pos \o <<1>>)
        n1 == [un_op EXCEPT !.operand = operand.node]
    IN IF operand.exc # NoExc THEN Raised(operand.errs, operand.exc, n1)
       ELSE IF operator = NoneOperator
       THEN _log_error(<<>>, Error("UnresolvedReference", pos, <<un_op.op.name>>), n1)
       ELSE
       LET got == get_un_op(cm, operator, operand.val)
       IN IF got.operation = NoneOperator
          THEN _log_error(<<>>, Error("MismatchedTypes", pos, got.info),
                          [n1 EXCEPT !.op = OperationOp(UnaryOp_get_operation_by_operator(operator))])
          ELSE IF ~UnaryOperation[got.operation].is_supported
          THEN _log_error(<<>>, Error("NotSupportedOperation", pos, <<operator>>), n1)
          ELSE Returned(IType(UnaryOperation[got.operation].result),
                        [n1 EXCEPT !.op = OperationOp(got.operation)])

(* TypeAnalyser.visit_UnaryOp *)
visit_UnaryOp(cm, un_op, pos) ==
    LET operator == get_operator(un_op.op)
        operand == visit(cm, un_op.operand, pos \o <<1>>)
        n1 == [un_op EXCEPT !.operand = operand.node]
    IN IF operand.exc # NoExc THEN Raised(operand.errs, operand.exc, n1)
       ELSE IF operator = NoneOperator
       THEN _log_error(<<>>, Error("UnresolvedReference", pos, <<un_op.op.name>>), n1)
       ELSE
       LET got == get_un_op(cm, operator, operand.val)
       IN IF got.operation = NoneOperator
          THEN _log_error(<<>>, Error("MismatchedTypes", pos, got.info), n1)
          ELSE IF ~UnaryOperation[got.operation].is_supported
          THEN _log_error(<<>>, Error("NotSupportedOperation", pos, <<operator>>), n1)
          ELSE Returned(IType(UnaryOperation[got.operation].result),
                        [n1 EXCEPT !.op = OperationOp(got.operation)])

(* The except clause of visit_Compare and visit_BoolOp: a MismatchedTypes   *)
(* that leaves the try block, raised by get_bin_op or by the visit of an    *)
(* operand, is logged with the coordinates (line, col) current at that      *)
(* moment; any other exception passes through.                              *)
except_MismatchedTypes(body) ==
    IF body.res.exc.kind = "MismatchedTypes"
    THEN _log_error(body.res.errs, Error("MismatchedTypes", body.at, body.res.exc.info), body.res.node)
    ELSE body.res

(* The loop of visit_Compare without the assignments that advance line and  *)
(* col to the comparator of the pair                                        *)
compare_ops_coordinates_kept(cm, compare, pos, index, l_operand, linecol, return_type) ==
    IF index > Len(compare.ops)
    THEN [res |-> Returned(return_type, compare), at |-> linecol]
    ELSE
    LET operator == get_operator(compare.ops[index])
        r_operand == visit(cm, compare.comparators[index], pos \o <<index>>)
        n1 == [compare EXCEPT !.comparators[index] = r_operand.node]
    IN IF r_operand.exc # NoExc
       THEN [res |-> Raised(r_operand.errs, r_operand.exc, n1), at |-> linecol]
       ELSE IF operator = NoneOperator
       THEN [res |-> _log_error(<<>>, Error("UnresolvedReference", linecol, <<compare.ops[index].name>>), n1),
             at |-> linecol]
       ELSE
       LET got == get_bin_op(cm, operator, r_operand.val, l_operand)
       IN IF got.operation = NoneOperator
          THEN [res |-> Raised(<<>>, Error("MismatchedTypes", <<0, 0>>, got.info), n1), at |-> linecol]
          ELSE IF ~BinaryOperation[got.operation].is_supported
          THEN [res |-> _log_error(<<>>, Error("NotSupportedOperation", linecol, <<operator>>), n1),
                at |-> linecol]
          ELSE compare_ops(cm, [n1 EXCEPT !.ops[index] = OperationOp(got.operation)], pos, index + 1,
                           r_operand.val, linecol,
                           IType(BinaryOperation[got.operation].result))

(* The loop of visit_Compare over enumerate(compare.ops), from index on *)
compare_ops(cm, compare, pos, index, l_operand, linecol, return_type) ==
    IF index > Len(compare.ops)
    THEN [res |-> Returned(return_type, compare), at |-> linecol]
    ELSE
    LET operator == get_operator(compare.ops[index])
        r_operand == visit(cm, compare.comparators[index], pos \o <<index>>)
        n1 == [compare EXCEPT !.comparators[index] = r_operand.node]
    IN IF r_operand.exc # NoExc
       THEN [res |-> Raised(r_operand.errs, r_operand.exc, n1), at |-> linecol]
       ELSE IF operator = NoneOperator
       THEN [res |-> _log_error(<<>>, Error("UnresolvedReference", linecol, <<compare.ops[index].name>>), n1),
             at |-> linecol]
       ELSE
       LET got == get_bin_op(cm, operator, r_operand.val, l_operand)
       IN IF got.operation = NoneOperator
          THEN [res |-> Raised(<<>>, Error("MismatchedTypes", <<0, 0>>, got.info), n1), at |-> linecol]
          ELSE IF ~BinaryOperation[got.operation].is_supported
          THEN [res |-> _log_error(<<>>, Error("NotSupportedOperation", linecol, <<operator>>), n1),
                at |-> linecol]
          ELSE compare_ops(cm, [n1 EXCEPT !.ops[index] = OperationOp(got.operation)], pos, index + 1,
                           r_operand.val, pos \o <<index>>,
                           IType(BinaryOperation[got.operation].result))

(* visit_Compare with the first operator slot left as it was *)
visit_Compare_first_slot_kept(cm, compare, pos) ==
    IF Len(compare.comparators) # Len(compare.ops)
    THEN _log_error(<<>>, Error("IncorrectNumberOfOperands", pos,
                                <<Len(compare.ops), Len(compare.comparators) + 1>>), compare)
    ELSE
    LET l_operand == visit(cm, compare.left, pos \o <<0>>)
        n1 == [compare EXCEPT !.left = l_operand.node]
        out == except_MismatchedTypes(
                   IF l_operand.exc # NoExc
                   THEN [res |-> Raised(l_operand.errs, l_operand.exc, n1), at |-> pos]
                   ELSE compare_ops(cm, n1, pos, 1, l_operand.val, pos, None))
    IN [out EXCEPT !.node.ops = [i \in DOMAIN compare.ops |->
                                    IF i = 1 THEN compare.ops[1] ELSE out.node.ops[i]]]

(* TypeAnalyser.visit_Compare *)
visit_Compare(cm, compare, pos) ==
    IF Len(compare.comparators) # Len(compare.ops)
    THEN _log_error(<<>>, Error("IncorrectNumberOfOperands", pos,
                                <<Len(compare.ops), Len(compare.comparators) + 1>>), compare)
    ELSE
    LET l_operand == visit(cm, compare.left, pos \o <<0>>)
        n1 == [compare EXCEPT !.left = l_operand.node]
    IN except_MismatchedTypes(
           IF l_operand.exc # NoExc
           THEN [res |-> Raised(l_operand.errs, l_operand.exc, n1), at |-> pos]
           ELSE compare_ops(cm, n1, pos, 1, l_operand.val, pos, None))

(* The loop of visit_BoolOp without the assignment bool_op.op =             *)
(* bool_operation after it                                                  *)
bool_values_slot_kept(cm, bool_op, pos, index, l_operand, linecol, bool_operation) ==
    IF index > Len(bool_op.values)
    THEN [res |-> Returned(IF bool_operation = NoneOperator THEN None
                           ELSE IType(BinaryOperation[bool_operation].result),
                           bool_op),
          at |-> linecol]
    ELSE
    LET operator == get_operator(bool_op.op)
        r_operand == visit(cm, bool_op.values[index], pos \o <<index>>)
        n1 == [bool_op EXCEPT !.values[index] = r_operand.node]
    IN IF r_operand.exc # NoExc
       THEN [res |-> Raised(r_operand.errs, r_operand.exc, n1), at |-> linecol]
       ELSE
       LET got == get_bin_op(cm, operator, r_operand.val, l_operand)
       IN IF got.operation = NoneOperator
          THEN [res |-> Raised(<<>>, Error("MismatchedTypes", <<0, 0>>, got.info), n1), at |-> linecol]
          ELSE bool_values(cm, n1, pos, index + 1, r_operand.val, pos \o <<index>>,
                           IF bool_operation = NoneOperator THEN got.operation ELSE bool_operation)

(* The loop of visit_BoolOp over bool_op.values[1:], from values[index] on *)
bool_values(cm, bool_op, pos, index, l_operand, linecol, bool_operation) ==
    IF index > Len(bool_op.values)
    THEN [res |-> Returned(IF bool_operation = NoneOperator THEN None
                           ELSE IType(BinaryOperation[bool_operation].result),
                           [bool_op EXCEPT !.op = IF bool_operation = NoneOperator THEN NoneSlot
                                                  ELSE OperationOp(bool_operation)]),
          at |-> linecol]
    ELSE
    LET operator == get_operator(bool_op.op)
        r_operand == visit(cm, bool_op.values[index], pos \o <<index>>)
        n1 == [bool_op EXCEPT !.values[index] = r_operand.node]
    IN IF r_operand.exc # NoExc
       THEN [res |-> Raised(r_operand.errs, r_operand.exc, n1), at |-> linecol]
       ELSE
       LET got == get_bin_op(cm, operator, r_operand.val, l_operand)
       IN IF got.operation = NoneOperator
          THEN [res |-> Raised(<<>>, Error("MismatchedTypes", <<0, 0>>, got.info), n1), at |-> linecol]
          ELSE bool_values(cm, n1, pos, index + 1, r_operand.val, pos \o <<index>>,
                           IF bool_operation = NoneOperator THEN got.operation ELSE bool_operation)

(* TypeAnalyser.visit_BoolOp *)
visit_BoolOp(cm, bool_op, pos) ==
    LET operator == get_operator(bool_op.op)
    IN except_MismatchedTypes(
           IF operator = NoneOperator
           THEN [res |-> _log_error(<<>>, Error("UnresolvedReference", pos, <<"NoneType">>), bool_op),
                 at |-> pos]
           ELSE
           LET l_operand == visit(cm, bool_op.values[1], pos \o <<1>>)
               n1 == [bool_op EXCEPT !.values[1] = l_operand.node]
           IN IF l_operand.exc # NoExc
              THEN [res |-> Raised(l_operand.errs, l_operand.exc, n1), at |-> pos]
              ELSE bool_values(cm, n1, pos, 2, l_operand.val, pos, NoneOperator))

(* One turn of a loop "for node in nodes: self.visit(node)": r is the       *)
(* outcome of self.visit(nodes[index]); an exception leaves the loop, and   *)
(* the loop goes on with nodes[index + 1] otherwise                         *)
visit_list_next(cm, nodes, base, index, r) ==
    IF r.exc # NoExc THEN Raised(r.errs, r.exc, [nodes EXCEPT ![index] = r.node])
    ELSE visit_list(cm, [nodes EXCEPT ![index] = r.node], base, index + 1)

(* A loop "for node in nodes: self.visit(node)" from nodes[index] on; the   *)
(* node at nodes[i] has coordinates base \o <<i>>.                          *)
visit_list(cm, nodes, base, index) ==
    IF index > Len(nodes) THEN Returned(None, nodes)
    ELSE visit_list_next(cm, nodes, base, index, visit(cm, nodes[index], base \o <<index>>))

(* NodeVisitor.generic_visit of a node whose only child is value *)
generic_visit_value(cm, node, pos) ==
    IF node.value = Absent THEN Returned(None, node)
    ELSE LET r == visit(cm, node.value, pos \o <<1>>)
             n1 == [node EXCEPT !.value = r.node]
         IN IF r.exc # NoExc THEN Raised(r.errs, r.exc, n1) ELSE Returned(None, n1)

(* visit_Return with the missing type hint tested before the tuple *)
visit_Return_hint_first(cm, ret, pos) ==
    IF ret.value # Absent
    THEN IF cm.return_type = "none"
         THEN _log_error(<<>>, Error("TypeHintMissing", pos, <<current_method_id(cm)>>), ret)
         ELSE IF ret.value.kind = "Tuple"
         THEN _log_error(<<>>, Error("TooManyReturns", pos, <<>>), ret)
         ELSE generic_visit_value(cm, ret, pos)
    ELSE IF cm.return_type # "none"
         THEN _log_error(<<>>, Error("MismatchedTypes", pos,
                                     [expected |-> <<cm.return_type>>, actual |-> <<"none">>]), ret)
         ELSE generic_visit_value(cm, ret, pos)

(* TypeAnalyser.visit_Return *)
visit_Return(cm, ret, pos) ==
    IF ret.value # Absent
    THEN IF ret.value.kind = "Tuple"
         THEN _log_error(<<>>, Error("TooManyReturns", pos, <<>>), ret)
         ELSE IF cm.return_type = "none"
         THEN _log_error(<<>>, Error("TypeHintMissing", pos, <<current_method_id(cm)>>), ret)
         ELSE generic_visit_value(cm, ret, pos)
    ELSE IF cm.return_type # "none"
         THEN _log_error(<<>>, Error("MismatchedTypes", pos,
                                     [expected |-> <<cm.return_type>>, actual |-> <<"none">>]), ret)
         ELSE generic_visit_value(cm, ret, pos)

(* visit_Assign with each of the two tests logging on its own *)
visit_Assign_each_test_logs(cm, assign, pos) ==
    LET error == Error("NotSupportedOperation", pos, <<"Multiple variable assignments">>)
    IN IF Len(assign.targets) > 1 /\ assign.targets[1].kind = "Tuple"
       THEN Raised(<<error, error>>, error, assign)
       ELSE IF Len(assign.targets) > 1 \/ assign.targets[1].kind = "Tuple"
       THEN _log_error(<<>>, error, assign)
       ELSE LET t == visit_list(cm, assign.targets, pos \o <<0>>, 1)
                n1 == [assign EXCEPT !.targets = t.node]
            IN IF t.exc # NoExc THEN Raised(t.errs, t.exc, n1)
               ELSE generic_visit_value(cm, n1, pos)

(* TypeAnalyser.visit_Assign; generic_visit walks the targets, then the value *)
visit_Assign(cm, assign, pos) ==
    IF Len(assign.targets) > 1
    THEN _log_error(<<>>, Error("NotSupportedOperation", pos, <<"Multiple variable assignments">>), assign)
    ELSE IF assign.targets[1].kind = "Tuple"
    THEN _log_error(<<>>, Error("NotSupportedOperation", pos, <<"Multiple variable assignments">>), assign)
    ELSE LET t == visit_list(cm, assign.targets, pos \o <<0>>, 1)
             n1 == [assign EXCEPT !.targets = t.node]
         IN IF t.exc # NoExc THEN Raised(t.errs, t.exc, n1)
            ELSE generic_visit_value(cm, n1, pos)

(* The statements of a body, then the statements of an orelse *)
visit_body_orelse(cm, node, pos) ==
    LET b == visit_list(cm, node.body, pos \o <<1>>, 1)
        n1 == [node EXCEPT !.body = b.node]
    IN IF b.exc # NoExc THEN Raised(b.errs, b.exc, n1)
       ELSE LET e == visit_list(cm, n1.orelse, pos \o <<2>>, 1)
                n2 == [n1 EXCEPT !.orelse = e.node]
            IN IF e.exc # NoExc THEN Raised(e.errs, e.exc, n2) ELSE Returned(None, n2)

(* TypeAnalyser.visit_While *)
visit_While(cm, while_node, pos) ==
    LET test == visit(cm, while_node.test, pos \o <<0>>)
        n1 == [while_node EXCEPT !.test = test.node]
    IN IF test.exc # NoExc THEN Raised(test.errs, test.exc, n1)
       ELSE LET test_type == get_type(cm, test.val)
            IN IF test_type # "bool"
               THEN _log_error(<<>>, Error("MismatchedTypes", pos,
                                           [expected |-> <<"bool">>, actual |-> <<test_type>>]), n1)
               ELSE visit_body_orelse(cm, n1, pos)

(* visit_If with the test for an elif made before the walk of the body *)
visit_If_elif_before_body(cm, if_node, pos) ==
    LET v == validate_if(cm, if_node, pos)
    IN IF v.exc # NoExc THEN v
       ELSE IF Len(v.node.orelse) = 1 /\ v.node.orelse[1].kind = "If"
       THEN Raised(<<>>, NotImplementedError, v.node)
       ELSE LET b == visit_list(cm, v.node.body, pos \o <<1>>, 1)
                n1 == [v.node EXCEPT !.body = b.node]
            IN IF b.exc # NoExc THEN Raised(b.errs, b.exc, n1)
               ELSE LET e == visit_list(cm, n1.orelse, pos \o <<2>>, 1)
                        n2 == [n1 EXCEPT !.orelse = e.node]
                    IN IF e.exc # NoExc THEN Raised(e.errs, e.exc, n2) ELSE Returned(None, n2)

(* TypeAnalyser.visit_If *)
visit_If(cm, if_node, pos) ==
    LET v == validate_if(cm, if_node, pos)
    IN IF v.exc # NoExc THEN v
       ELSE LET b == visit_list(cm, v.node.body, pos \o <<1>>, 1)
                n1 == [v.node EXCEPT !.body = b.node]
            IN IF b.exc # NoExc THEN Raised(b.errs, b.exc, n1)
               ELSE IF Len(n1.orelse) = 1 /\ n1.orelse[1].kind = "If"
               THEN Raised(<<>>, NotImplementedError, n1)
               ELSE LET e == visit_list(cm, n1.orelse, pos \o <<2>>, 1)
                        n2 == [n1 EXCEPT !.orelse = e.node]
                    IN IF e.exc # NoExc THEN Raised(e.errs, e.exc, n2) ELSE Returned(None, n2)

(* TypeAnalyser.visit_Index *)
visit_Index(cm, index, pos) ==
    LET r == visit(cm, index.value, pos \o <<1>>)
        n1 == [index EXCEPT !.value = r.node]
    IN IF r.exc # NoExc THEN Raised(r.errs, r.exc, n1) ELSE Returned(r.val, n1)

(* visit_Subscript without the return of the outer type of a type hint *)
visit_Subscript_no_type_hint(cm, subscript, pos) ==
    LET v == visit(cm, subscript.value, pos \o <<1>>)
        n1 == [subscript EXCEPT !.value = v.node]
    IN IF v.exc # NoExc THEN Raised(v.errs, v.exc, n1)
       ELSE
       LET i == visit(cm, subscript.slice, pos \o <<2>>)
           n2 == [n1 EXCEPT !.slice = i.node]
       IN IF i.exc # NoExc THEN Raised(i.errs, i.exc, n2)
          ELSE
          LET value == IF v.val.k = "Name" THEN get_symbol(cm, v.val.id) ELSE v.val
              index == IF i.val.k = "Name" THEN get_symbol(cm, i.val.id) ELSE i.val
              symbol_type == get_type(cm, value)
              index_type == get_type(cm, index)
          IN IF symbol_type \notin DOMAIN SequenceType
             THEN _log_error(<<>>, Error("UnresolvedOperation", pos,
                                         [type_id |-> symbol_type, operation_id |-> "Subscript"]), n2)
             ELSE IF ~is_valid_key(symbol_type, index_type)
             THEN _log_error(<<>>, Error("MismatchedTypes", pos,
                                         [expected |-> <<SequenceType[symbol_type].valid_key>>,
                                          actual |-> <<index_type>>]), n2)
             ELSE Returned(IType(SequenceType[symbol_type].value_type), n2)

(* TypeAnalyser.visit_Subscript *)
visit_Subscript(cm, subscript, pos) ==
    LET v == visit(cm, subscript.value, pos \o <<1>>)
        n1 == [subscript EXCEPT !.value = v.node]
    IN IF v.exc # NoExc THEN Raised(v.errs, v.exc, n1)
       ELSE
       LET i == visit(cm, subscript.slice, pos \o <<2>>)
           n2 == [n1 EXCEPT !.slice = i.node]
       IN IF i.exc # NoExc THEN Raised(i.errs, i.exc, n2)
          ELSE
          LET value == IF v.val.k = "Name" THEN get_symbol(cm, v.val.id) ELSE v.val
              index == IF i.val.k = "Name" THEN get_symbol(cm, i.val.id) ELSE i.val
          IN IF value.k = "IType" /\ index.k = "IType"
             THEN \* a type hint: the outer type
                  Returned(value, n2)
             ELSE
             LET symbol_type == get_type(cm, value)
                 index_type == get_type(cm, index)
             IN IF symbol_type \notin DOMAIN SequenceType
                THEN _log_error(<<>>, Error("UnresolvedOperation", pos,
                                            [type_id |-> symbol_type, operation_id |-> "Subscript"]), n2)
                ELSE IF ~is_valid_key(symbol_type, index_type)
                THEN _log_error(<<>>, Error("MismatchedTypes", pos,
                                            [expected |-> <<SequenceType[symbol_type].valid_key>>,
                                             actual |-> <<index_type>>]), n2)
                ELSE Returned(IType(SequenceType[symbol_type].value_type), n2)

(* TypeAnalyser.visit_Break *)
visit_Break(cm, break_node, pos) == Raised(<<>>, NotImplementedError, break_node)

(* TypeAnalyser.visit_Continue *)
visit_Continue(cm, continue_node, pos) == Raised(<<>>, NotImplementedError, continue_node)

(* TypeAnalyser.visit_arg; generic_visit walks the annotation *)
visit_arg(cm, a, pos) ==
    IF a.annotation = Absent
    THEN _log_error(<<>>, Error("TypeHintMissing", pos, <<a.arg>>), a)
    ELSE LET r == visit(cm, a.annotation, pos \o <<1>>)
             n1 == [a EXCEPT !.annotation = r.node]
         IN IF r.exc # NoExc THEN Raised(r.errs, r.exc, n1) ELSE Returned(None, n1)

(* The end of visit_arguments: self.generic_visit(arguments), reached when  *)
(* the loop over arguments.args, whose outcome is first, raised nothing     *)
generic_visit_arguments(cm, pos, first) ==
    IF first.exc # NoExc THEN first
    ELSE visit_list(cm, first.node, pos, 1)

(* TypeAnalyser.visit_arguments: every arg is visited, and generic_visit    *)
(* then visits every arg again                                              *)
visit_arguments(cm, arguments, pos) ==
    generic_visit_arguments(cm, pos, visit_list(cm, arguments, pos, 1))

(* NodeVisitor.visit: dispatch on the class of the node *)
visit(cm, node, pos) ==
    CASE node.kind = "Name" -> visit_Name(cm, node, pos)
      [] node.kind = "Num" -> visit_Num(cm, node, pos)
      [] node.kind = "Str" -> visit_Str(cm, node, pos)
      [] node.kind = "NameConstant" -> visit_NameConstant(cm, node, pos)
      [] node.kind = "Tuple" -> visit_Tuple(cm, node, pos)
      [] node.kind = "IfExp" -> visit_IfExp(cm, node, pos)
      [] node.kind = "BinOp" -> visit_BinOp(cm, node, pos)
      [] node.kind = "UnaryOp" -> visit_UnaryOp(cm, node, pos)
      [] node.kind = "Compare" -> visit_Compare(cm, node, pos)
      [] node.kind = "BoolOp" -> visit_BoolOp(cm, node, pos)
      [] node.kind = "Expr" -> generic_visit_value(cm, node, pos)
      [] node.kind = "Return" -> visit_Return(cm, node, pos)
      [] node.kind = "Assign" -> visit_Assign(cm, node, pos)
      [] node.kind = "While" -> visit_While(cm, node, pos)
      [] node.kind = "If" -> visit_If(cm, node, pos)
      [] node.kind = "Break" -> visit_Break(cm, node, pos)
      [] node.kind = "Continue" -> visit_Continue(cm, node, pos)
      [] node.kind = "arg" -> visit_arg(cm, node, pos)
      [] node.kind = "Subscript" -> visit_Subscript(cm, node, pos)
      [] node.kind = "Index" -> visit_Index(cm, node, pos)

-----------------------------------------------------------------------------
(* The programs analysed *)

MaxBody == 2     \* statements in the body of the first function
MaxTail == 1     \* top-level statements after the first function

a == Name("a")
b == Name("b")
s == Name("s")
c == Name("c")

(* The formal arguments a, b: int, s: str, c: bool; ua, ub: a, b carry no annotation *)
Args(ua, ub) ==
    <<arg("a", IF ua THEN Absent ELSE Name("int")),
      arg("b", IF ub THEN Absent ELSE Name("int")),
      arg("s", Name("str")),
      arg("c", Name("bool"))>>

SeqsUpTo(S, lo, hi) == UNION {[1..n -> S] : n \in lo..hi}

Statements ==
    {Expr(BinOp(a, "Add", b)),
     Expr(Num("float")),
     Expr(BinOp(a, "Add", s)),
     Expr(IfExp(c, BinOp(a, "Add", b), a)),
     Expr(Compare(a, <<"Lt", "Lt">>, <<b, s>>)),
     Assign(<<Name("x")>>, Num("int")),
     Return(a),
     While(c, <<Break>>, <<>>)}

Functions ==
    {FunctionDef("f", Args(ua, ub), returns, body) :
        ua \in BOOLEAN, ub \in BOOLEAN, returns \in {"int", "none"},
        body \in SeqsUpTo(Statements, 1, MaxBody)}

Tails ==
    {FunctionDef("g", Args(FALSE, FALSE), "int", <<Expr(BinOp(a, "Add", b))>>),
     FunctionDef("g", Args(FALSE, FALSE), "int", <<Expr(Num("float"))>>),
     Assign(<<Name("y")>>, Num("float"))}

Programs == {<<f>> \o tail : f \in Functions, tail \in SeqsUpTo(Tails, 0, MaxTail)}

(* The symbol table the earlier pass hands over: every function under its   *)
(* name, as a Method with its declared return type and its arguments as     *)
(* local symbols                                                            *)
LocalsOf(args) ==
    [id \in {args[i].arg : i \in DOMAIN args} |->
        LET i == CHOOSE i \in DOMAIN args : args[i].arg = id
        IN Expression(IF args[i].annotation = Absent THEN "none" ELSE args[i].annotation.id)]

SymbolTable(t) ==
    LET fs == {i \in DOMAIN t : t[i].kind = "FunctionDef"}
    IN [name \in {t[i].name : i \in fs} |->
          LET i == CHOOSE i \in fs : t[i].name = name
          IN Method(name, t[i].returns, LocalsOf(t[i].args))]

-----------------------------------------------------------------------------
(* The walk: TypeAnalyser.__init__ runs self.visit(self._tree) *)

Start(t) ==
    /\ tree = t
    /\ symbols = SymbolTable(t)
    /\ modules = EmptyDict
    /\ current_method = None
    /\ errors = <<>>
    /\ warnings = <<>>
    /\ pc = [at |-> "module", i |-> 1, j |-> 0]
    /\ raised = NoExc
    /\ visited = {}
    /\ run = 1
    /\ tree0 = t
    /\ tree1 = <<>>
    /\ query = ""
    /\ result = None

Init == \E t \in Programs : Start(t)

(* The effect on the analyser of a visit that ended with outcome r, of the  *)
(* node that becomes newtree when rewritten                                 *)
Outcome(r, newtree, nextpc) ==
    /\ tree' = newtree
    /\ errors' = errors \o r.errs
    /\ raised' = r.exc
    /\ pc' = IF r.exc # NoExc THEN [pc EXCEPT !.at = "raised"] ELSE nextpc

(* visit_Module reaches a top-level statement that is a function definition *)
EnterFunctionDef ==
    /\ pc.at = "module"
    /\ pc.i <= Len(tree)
    /\ tree[pc.i].kind = "FunctionDef"
    /\ pc' = [pc EXCEPT !.at = "args"]
    /\ visited' = visited \cup {<<pc.i>>}
    /\ UNCHANGED <<tree, symbols, modules, current_method, errors, warnings, raised,
                   run, tree0, tree1, query, result>>

(* visit_FunctionDef: self.visit(function.args), then the method of the     *)
(* function's name becomes the current method                               *)
VisitArguments ==
    /\ pc.at = "args"
    /\ \E r \in {visit_arguments(current_method, tree[pc.i].args, <<pc.i, 0>>)} :
          /\ Outcome(r, [tree EXCEPT ![pc.i].args = r.node], [pc EXCEPT !.at = "body", !.j = 1])
          /\ current_method' = IF r.exc # NoExc THEN current_method ELSE symbols[tree[pc.i].name]
    /\ UNCHANGED <<symbols, modules, warnings, visited, run, tree0, tree1, query, result>>

(* visit_FunctionDef: self.visit(stmt) for the next statement of the body *)
VisitBodyStmt ==
    /\ pc.at = "body"
    /\ pc.j <= Len(tree[pc.i].body)
    /\ \E r \in {visit(current_method, tree[pc.i].body[pc.j], <<pc.i, pc.j>>)} :
          Outcome(r, [tree EXCEPT ![pc.i].body[pc.j] = r.node], [pc EXCEPT !.j = pc.j + 1])
    /\ visited' = visited \cup {<<pc.i, pc.j>>}
    /\ UNCHANGED <<symbols, modules, current_method, warnings, run, tree0, tree1, query, result>>

(* visit_FunctionDef: after the body, the current method is cleared *)
LeaveFunctionDef ==
    /\ pc.at = "body"
    /\ pc.j > Len(tree[pc.i].body)
    /\ current_method' = None
    /\ pc' = [at |-> "module", i |-> pc.i + 1, j |-> 0]
    /\ UNCHANGED <<tree, symbols, modules, errors, warnings, raised, visited,
                   run, tree0, tree1, query, result>>

(* visit_Module: self.visit(stmt) for a top-level statement that is not a   *)
(* function definition                                                      *)
VisitModuleStmt ==
    /\ pc.at = "module"
    /\ pc.i <= Len(tree)
    /\ tree[pc.i].kind # "FunctionDef"
    /\ \E r \in {visit(current_method, tree[pc.i], <<pc.i>>)} :
          Outcome(r, [tree EXCEPT ![pc.i] = r.node], [pc EXCEPT !.i = pc.i + 1])
    /\ visited' = visited \cup {<<pc.i>>}
    /\ UNCHANGED <<symbols, modules, current_method, warnings, run, tree0, tree1, query, result>>

(* visit_Module returns: the constructor is done *)
EndModule ==
    /\ pc.at = "module"
    /\ pc.i > Len(tree)
    /\ pc' = [pc EXCEPT !.at = "done"]
    /\ UNCHANGED <<tree, symbols, modules, current_method, errors, warnings, raised,
                   visited, run, tree0, tree1, query, result>>

(* A second TypeAnalyser is constructed on the tree the first one left, with *)
(* the same symbol table                                                     *)
Reanalyse ==
    /\ pc.at = "done"
    /\ run = 1
    /\ run' = 2
    /\ tree1' = tree
    /\ errors' = <<>>
    /\ warnings' = <<>>
    /\ current_method' = None
    /\ pc' = [at |-> "module", i |-> 1, j |-> 0]
    /\ visited' = {}
    /\ UNCHANGED <<tree, symbols, modules, raised, tree0, query, result>>

Next ==
    \/ EnterFunctionDef
    \/ VisitArguments
    \/ VisitBodyStmt
    \/ LeaveFunctionDef
    \/ VisitModuleStmt
    \/ EndModule
    \/ Reanalyse

Spec == Init /\ [][Next]_vars

-----------------------------------------------------------------------------
(* The walk of one function whose body is a single statement, drawn from a  *)
(* larger family of statements                                              *)

Atoms == {a, s, c, Num("int"), Num("float")}

Operands ==
    Atoms \cup
    {BinOp(a, "Add", a), BinOp(a, "Add", s), BinOp(s, "Add", s), BinOp(a, "Pow", a),
     BinOp(Num("float"), "Add", Num("float")),
     Compare(a, <<"Lt">>, <<a>>), Compare(a, <<"Lt">>, <<s>>),
     BoolOp("And", <<c, c>>), BoolOp("And", <<c, a>>),
     UnaryOp("USub", a), UnaryOp("USub", s), UnaryOp("Not", c),
     IfExp(c, a, a), IfExp(a, a, a), IfExp(c, BinOp(a, "Add", a), a),
     Tuple(<<BinOp(a, "Add", a), a>>)}

Expressions ==
    Operands
    \cup {BinOp(x, op, y) : x \in Operands, y \in Operands, op \in {"Add", "Pow"}}
    \cup {UnaryOp(op, x) : x \in Operands, op \in {"USub", "Not", "Invert"}}
    \cup {Compare(x, <<op>>, <<y>>) : x \in Operands, y \in Operands, op \in {"Lt", "Eq", "In"}}
    \cup {Compare(x, <<"Lt", "Lt">>, <<y, z>>) : x \in Atoms, y \in Atoms, z \in Atoms}
    \cup {Compare(x, <<"Lt", "Lt">>, <<y>>) : x \in Atoms, y \in Atoms}
    \cup {BoolOp(op, <<x, y>>) : x \in Operands, y \in Operands, op \in {"And", "Or"}}
    \cup {BoolOp("And", <<x, y, z>>) : x \in Atoms, y \in Atoms, z \in Atoms}
    \cup {IfExp(x, y, z) : x \in {c, a, BinOp(a, "Add", s), Compare(a, <<"Lt">>, <<a>>)},
                           y \in Operands, z \in {a, BinOp(a, "Add", a), BinOp(a, "Add", s)}}

SingleStatements ==
    {Expr(e) : e \in Expressions}
    \cup {Return(e) : e \in Operands \cup {Absent}}
    \cup {Assign(<<Name("x")>>, e) : e \in Operands}
    \cup {Assign(<<Name("x"), Name("y")>>, a), Assign(<<Tuple(<<Name("x"), Name("y")>>)>>, a),
          Assign(<<Tuple(<<Name("x"), Name("y")>>), Name("z")>>, a)}
    \cup {While(e, <<st>>, <<>>) : e \in {c, a, Compare(a, <<"Lt">>, <<a>>), BinOp(a, "Add", s)},
                                   st \in {Expr(BinOp(a, "Add", a)), Expr(Num("float")), Break, Continue}}
    \cup {If(e, <<Expr(BinOp(a, "Add", a))>>, orelse) :
             e \in {c, a, Compare(a, <<"Lt">>, <<a>>)},
             orelse \in {<<>>, <<Expr(Num("float"))>>, <<If(c, <<Expr(a)>>, <<>>)>>}}
    \cup {While(c, <<Expr(BinOp(a, "Add", a)), Expr(BinOp(a, "Add", b))>>, <<Expr(BinOp(b, "Add", a))>>),
          If(c, <<Expr(BinOp(a, "Add", a)), Expr(BinOp(a, "Add", b))>>, <<Expr(BinOp(b, "Add", a))>>),
          While(c, <<Expr(Num("float"))>>, <<Expr(BinOp(a, "Add", s))>>),
          If(c, <<Expr(Num("float"))>>, <<Expr(BinOp(a, "Add", s))>>)}

(* Statements with a break, a continue or an elif, each with statements     *)
(* after it                                                                 *)
AbortingStatements ==
    {Break, Continue}
    \cup {While(e, <<jump, Expr(Num("float"))>>, <<Expr(Num("float"))>>) :
             e \in {c, Compare(a, <<"Lt">>, <<a>>)}, jump \in {Break, Continue}}
    \cup {If(e, <<st>>, <<If(c, <<Expr(Num("float"))>>, <<>>)>>) :
             e \in {c, a, Compare(a, <<"Lt">>, <<a>>)},
             st \in {Expr(BinOp(a, "Add", b)), Expr(Num("float")), Break}}

StatementPrograms ==
    {<<FunctionDef("f", Args(FALSE, FALSE), returns, <<st>>)>> :
        returns \in {"int", "none"}, st \in SingleStatements}
    \cup {<<FunctionDef("f", Args(FALSE, FALSE), "int", <<Expr(a)>>), t>> : t \in Tails}
    \cup {<<FunctionDef("f", Args(FALSE, FALSE), "int", <<st, Expr(Num("float"))>>), t>> :
             st \in AbortingStatements, t \in Tails}

InitStmt == \E t \in StatementPrograms : Start(t)

SpecStmt == InitStmt /\ [][Next]_vars

-----------------------------------------------------------------------------
(* get_symbol on an analyser whose three scopes hold any of the identifiers *)

Ids == {"a", "b", "f"}

LocalSymbol(id) == Expression("int")
ModuleSymbol(id) == Module(id)
GlobalSymbol(id) == IF id = "f" THEN Method("f", "none", EmptyDict) ELSE Expression("str")

LocalDicts == {[id \in D |-> LocalSymbol(id)] : D \in SUBSET Ids}
ModuleDicts == {[id \in D |-> ModuleSymbol(id)] : D \in SUBSET Ids}
GlobalDicts == {[id \in D |-> GlobalSymbol(id)] : D \in SUBSET Ids}

InitSym ==
    /\ tree = <<>>
    /\ symbols \in GlobalDicts
    /\ modules \in ModuleDicts
    /\ current_method \in {None} \cup {Method("m", "none", locals) : locals \in LocalDicts}
    /\ errors = <<>>
    /\ warnings = <<>>
    /\ pc = [at |-> "done", i |-> 1, j |-> 0]
    /\ raised = NoExc
    /\ visited = {}
    /\ run = 1
    /\ tree0 = <<>>
    /\ tree1 = <<>>
    /\ query = ""
    /\ result = None

(* A call of get_symbol(symbol_id) *)
CallGetSymbol ==
    /\ \E symbol_id \in Ids :
          /\ query' = symbol_id
          /\ result' = get_symbol(current_method, symbol_id)
    /\ UNCHANGED <<tree, symbols, modules, current_method, errors, warnings, pc, raised,
                   visited, run, tree0, tree1>>

NextSym == CallGetSymbol

SpecSym == InitSym /\ [][NextSym]_vars

-----------------------------------------------------------------------------
(* visit_Subscript on an analyser whose scopes hold types and variables of  *)
(* sequence and of other types                                              *)

SubscriptLocals ==
    [xs |-> Expression("sequence[int]"), ss |-> Expression("sequence[str]"),
     a |-> Expression("int"), s |-> Expression("str")]

SubscriptGlobals ==
    [int |-> IType("int"), str |-> IType("str"), ints |-> IType("sequence[int]"),
     f |-> Method("f", "int", SubscriptLocals)]

(* The subscripted values and the slices; u is an identifier of no scope *)
SubscriptValues ==
    {Name("xs"), Name("ss"), Name("a"), Name("ints"), Name("int"), Name("u"), Str("t"),
     Num("float"), Subscript(Name("xs"), Index(Num("int")))}

SubscriptSlices ==
    {Index(Name("a")), Index(Name("s")), Index(Name("int")), Index(Name("u")),
     Index(Num("int")), Index(Num("float")), Index(Str("t")), Name("a")}

InitSub ==
    /\ tree \in {<<Subscript(v, i)>> : v \in SubscriptValues, i \in SubscriptSlices}
    /\ symbols = SubscriptGlobals
    /\ modules = EmptyDict
    /\ current_method \in {None, SubscriptGlobals["f"]}
    /\ errors = <<>>
    /\ warnings = <<>>
    /\ pc = [at |-> "call", i |-> 1, j |-> 0]
    /\ raised = NoExc
    /\ visited = {}
    /\ run = 1
    /\ tree0 = tree
    /\ tree1 = <<>>
    /\ query = ""
    /\ result = None

(* A call of self.visit(node) on the node of the tree; result is the value  *)
(* it returns                                                               *)
CallVisit ==
    /\ pc.at = "call"
    /\ \E r \in {visit(current_method, tree[1], <<1>>)} :
          /\ Outcome(r, <<r.node>>, [pc EXCEPT !.at = "done"])
          /\ result' = r.val
    /\ UNCHANGED <<symbols, modules, current_method, warnings, visited, run, tree0, tree1, query>>

NextCall == CallVisit

SpecSub == InitSub /\ [][NextCall]_vars

-----------------------------------------------------------------------------
(* visit on an expression, in the method f of the annotated arguments *)

ExpressionGlobals == SymbolTable(<<FunctionDef("f", Args(FALSE, FALSE), "int", <<Expr(a)>>)>>)

InitExpr ==
    /\ tree \in {<<e>> : e \in Expressions \cup {BinOp(a, "Add", b)}}
    /\ symbols = ExpressionGlobals
    /\ modules = EmptyDict
    /\ current_method = ExpressionGlobals["f"]
    /\ errors = <<>>
    /\ warnings = <<>>
    /\ pc = [at |-> "call", i |-> 1, j |-> 0]
    /\ raised = NoExc
    /\ visited = {}
    /\ run = 1
    /\ tree0 = tree
    /\ tree1 = <<>>
    /\ query = ""
    /\ result = None

SpecExpr == InitExpr /\ [][NextCall]_vars

-----------------------------------------------------------------------------
(* The walk of the single statement of a function's body, one call of       *)
(* _log_error per step: pc.calls counts the calls made so far by            *)
(* self.visit(stmt), whose k-th call logs the k-th entry of the visit's     *)
(* outcome; raised is the exception in flight after the call.  The node is  *)
(* taken over as rewritten when the visit ends.                             *)

InitLog ==
    \E t \in {p \in StatementPrograms : Len(p) = 1} :
       /\ tree = t
       /\ symbols = SymbolTable(t)
       /\ modules = EmptyDict
       /\ current_method = SymbolTable(t)["f"]
       /\ errors = <<>>
       /\ warnings = <<>>
       /\ pc = [at |-> "stmt", i |-> 1, j |-> 1, calls |-> 0]
       /\ raised = NoExc
       /\ visited = {<<1>>, <<1, 1>>}
       /\ run = 1
       /\ tree0 = t
       /\ tree1 = <<>>
       /\ query = ""
       /\ result = None

(* The next call of self._log_error(error) made inside self.visit(stmt) *)
LogError ==
    /\ pc.at = "stmt"
    /\ \E r \in {visit(current_method, tree[1].body[1], <<1, 1>>)} :
          /\ pc.calls < Len(r.errs)
          /\ errors' = append(errors, r.errs[pc.calls + 1])
          /\ raised' = r.errs[pc.calls + 1]
          /\ pc' = [pc EXCEPT !.calls = pc.calls + 1]
    /\ UNCHANGED <<tree, symbols, modules, current_method, warnings, visited,
                   run, tree0, tree1, query, result>>

(* self.visit(stmt) returns, or the exception leaves it *)
EndVisit ==
    /\ pc.at = "stmt"
    /\ \E r \in {visit(current_method, tree[1].body[1], <<1, 1>>)} :
          /\ pc.calls = Len(r.errs)
          /\ tree' = [tree EXCEPT ![1].body[1] = r.node]
          /\ raised' = r.exc
          /\ pc' = [pc EXCEPT !.at = IF r.exc # NoExc THEN "raised" ELSE "body", !.j = 2]
    /\ UNCHANGED <<symbols, modules, current_method, errors, warnings, visited,
                   run, tree0, tree1, query, result>>

NextLog ==
    \/ LogError
    \/ EndVisit

SpecLog == InitLog /\ [][NextLog]_vars

-----------------------------------------------------------------------------
(* get_type on nodes and on values, on an analyser whose three scopes hold  *)
(* any of the identifiers                                                   *)

TypeNodes ==
    {Str("a"), Str("zz"), Num("int"), Num("float"), Name("a"), Name("b"), Name("zz"),
     NameConstant("True"), NameConstant("None")}

TypeValues ==
    {IType("int"), IType("str"), Expression("bool"), PyInt, PyBool, PyStr, None, Module("a")}

InitType ==
    /\ tree = <<>>
    /\ symbols \in GlobalDicts
    /\ modules \in {EmptyDict, [id \in {"a"} |-> ModuleSymbol(id)]}
    /\ current_method \in {None} \cup {Method("m", "none", locals) : locals \in LocalDicts}
    /\ errors = <<>>
    /\ warnings = <<>>
    /\ pc = [at |-> "call", i |-> 1, j |-> 0]
    /\ raised = NoExc
    /\ visited = {}
    /\ run = 1
    /\ tree0 = <<>>
    /\ tree1 = <<>>
    /\ query \in TypeNodes \cup TypeValues
    /\ result = None

(* A call of get_type(query) with a node of the tree: the node is visited *)
CallGetTypeOfNode ==
    /\ pc.at = "call"
    /\ "kind" \in DOMAIN query
    /\ \E r \in {visit(current_method, query, <<1>>)} :
          /\ Outcome(r, <<r.node>>, [pc EXCEPT !.at = "done"])
          /\ result' = IF r.exc # NoExc THEN None ELSE get_type_visited(current_method, r.val)
    /\ UNCHANGED <<symbols, modules, current_method, warnings, visited, run, tree0, tree1, query>>

(* A call of get_type(query) with a value that is no node *)
CallGetTypeOfValue ==
    /\ pc.at = "call"
    /\ "kind" \notin DOMAIN query
    /\ result' = get_type(current_method, query)
    /\ pc' = [pc EXCEPT !.at = "done"]
    /\ UNCHANGED <<tree, symbols, modules, current_method, errors, warnings, raised,
                   visited, run, tree0, tree1, query>>

NextType ==
    \/ CallGetTypeOfNode
    \/ CallGetTypeOfValue

SpecType == InitType /\ [][NextType]_vars

-----------------------------------------------------------------------------
(* IntType.is_type_of and IntType.build on Python values *)

MaxInt == 20

PyValues ==
    {[k |-> "int", v |-> n] : n \in -MaxInt .. MaxInt}
    \cup {[k |-> "bool", v |-> n] : n \in {0, 1}}
    \cup {[k |-> "str", v |-> t] : t \in {"", "a", "1", "int"}}
    \cup {[k |-> "float", v |-> n] : n \in {0, 1}}
    \cup {None, PyTuple, IType("int")}

InitInt ==
    /\ tree = <<>>
    /\ symbols = EmptyDict
    /\ modules = EmptyDict
    /\ current_method = None
    /\ errors = <<>>
    /\ warnings = <<>>
    /\ pc = [at |-> "call", i |-> 1, j |-> 0]
    /\ raised = NoExc
    /\ visited = {}
    /\ run = 1
    /\ tree0 = <<>>
    /\ tree1 = <<>>
    /\ query \in PyValues
    /\ result = None

(* A call of IntType.is_type_of(query) *)
CallIsTypeOf ==
    /\ pc.at = "call"
    /\ result' = IntType_is_type_of(query)
    /\ pc' = [pc EXCEPT !.at = "is_type_of"]
    /\ UNCHANGED <<tree, symbols, modules, current_method, errors, warnings, raised,
                   visited, run, tree0, tree1, query>>

(* A call of IntType.build(query) *)
CallBuild ==
    /\ pc.at = "call"
    /\ result' = IntType_build(query)
    /\ pc' = [pc EXCEPT !.at = "build"]
    /\ UNCHANGED <<tree, symbols, modules, current_method, errors, warnings, raised,
                   visited, run, tree0, tree1, query>>

NextInt ==
    \/ CallIsTypeOf
    \/ CallBuild

SpecInt == InitInt /\ [][NextInt]_vars

-----------------------------------------------------------------------------
(* Concat.validate_type on any number of operand types, and                 *)
(* Concat._get_result on two                                                *)

MaxTypes == 3

TypeIds == {"int", "str", "bool", "none"}

InitConcat ==
    /\ tree = <<>>
    /\ symbols = EmptyDict
    /\ modules = EmptyDict
    /\ current_method = None
    /\ errors = <<>>
    /\ warnings = <<>>
    /\ pc = [at |-> "call", i |-> 1, j |-> 0]
    /\ raised = NoExc
    /\ visited = {}
    /\ run = 1
    /\ tree0 = <<>>
    /\ tree1 = <<>>
    /\ query \in SeqsUpTo(TypeIds, 0, MaxTypes)
    /\ result = None

(* A call of validate_type on the Concat operation, with the types of      *)
(* query as its arguments                                                   *)
CallValidateType ==
    /\ pc.at = "call"
    /\ result' = Concat_validate_type(query)
    /\ pc' = [pc EXCEPT !.at = "validate_type"]
    /\ UNCHANGED <<tree, symbols, modules, current_method, errors, warnings, raised,
                   visited, run, tree0, tree1, query>>

(* A call of _get_result(left, right) on the Concat operation *)
CallGetResult ==
    /\ pc.at = "call"
    /\ Len(query) = 2
    /\ result' = Concat_get_result(query[1], query[2])
    /\ pc' = [pc EXCEPT !.at = "_get_result"]
    /\ UNCHANGED <<tree, symbols, modules, current_method, errors, warnings, raised,
                   visited, run, tree0, tree1, query>>

NextConcat ==
    \/ CallValidateType
    \/ CallGetResult

SpecConcat == InitConcat /\ [][NextConcat]_vars

-----------------------------------------------------------------------------
(* The slot opcodes of the Opcode enumeration, each with its value as a     *)
(* sequence of bytes                                                        *)
Opcode ==
    [LDSFLD0 |-> <<88>>,
     LDSFLD1 |-> <<89>>,
     LDSFLD2 |-> <<90>>,
     LDSFLD3 |-> <<91>>,
     LDSFLD4 |-> <<92>>,
     LDSFLD5 |-> <<93>>,
     LDSFLD6 |-> <<94>>,
     LDSFLD |-> <<95>>,
     STSFLD0 |-> <<96>>,
     STSFLD1 |-> <<97>>,
     STSFLD2 |-> <<98>>,
     STSFLD3 |-> <<99>>,
     STSFLD4 |-> <<100>>,
     STSFLD5 |-> <<101>>,
     STSFLD6 |-> <<102>>,
     STSFLD |-> <<103>>,
     LDLOC0 |-> <<104>>,
     LDLOC1 |-> <<105>>,
     LDLOC2 |-> <<106>>,
     LDLOC3 |-> <<107>>,
     LDLOC4 |-> <<108>>,
     LDLOC5 |-> <<109>>,
     LDLOC6 |-> <<110>>,
     LDLOC |-> <<111>>,
     STLOC0 |-> <<112>>,
     STLOC1 |-> <<113>>,
     STLOC2 |-> <<114>>,
     STLOC3 |-> <<115>>,
     STLOC4 |-> <<116>>,
     STLOC5 |-> <<117>>,
     STLOC6 |-> <<118>>,
     STLOC |-> <<119>>,
     LDARG0 |-> <<120>>,
     LDARG1 |-> <<121>>,
     LDARG2 |-> <<122>>,
     LDARG3 |-> <<123>>,
     LDARG4 |-> <<124>>,
     LDARG5 |-> <<125>>,
     LDARG6 |-> <<126>>,
     LDARG |-> <<127>>,
     STARG0 |-> <<128>>,
     STARG1 |-> <<129>>,
     STARG2 |-> <<130>>,
     STARG3 |-> <<131>>,
     STARG4 |-> <<132>>,
     STARG5 |-> <<133>>,
     STARG6 |-> <<134>>,
     STARG |-> <<135>>]

(* Opcode(value): the member of the enumeration with that value *)
Opcode_by_value(bytes) == CHOOSE name \in DOMAIN Opcode : Opcode[name] = bytes

(* Integer.from_bytes: the number the bytes are, the low byte first *)
Integer_from_bytes(bytes) ==
    IF Len(bytes) = 0 THEN 0
    ELSE IF Len(bytes) = 1 THEN bytes[1]
    ELSE bytes[1] + 256 * bytes[2]

(* Integer.to_byte_array: the bytes of the number, the low byte first *)
Integer_to_byte_array(n) ==
    IF n < 256 THEN <<n>> ELSE <<n % 256, n \div 256>>

(* Opcode.get_store *)
get_store(index, local, is_arg) ==
    LET argument == IF ~local THEN FALSE ELSE is_arg
    IN IF 0 <= index /\ index <= 6
       THEN LET opcode_value ==
                    IF argument THEN Integer_from_bytes(Opcode["STARG0"]) + index
                    ELSE IF local THEN Integer_from_bytes(Opcode["STLOC0"]) + index
                    ELSE Integer_from_bytes(Opcode["STSFLD0"]) + index
            IN Opcode_by_value(Integer_to_byte_array(opcode_value))
       ELSE IF argument THEN "STARG"
       ELSE IF local THEN "STLOC"
       ELSE "STSFLD"

(* get_load without the reset of is_arg for a variable that is not local *)
get_load_is_arg_kept(index, local, is_arg) ==
    IF 0 <= index /\ index <= 6
    THEN LET opcode_value ==
                 IF is_arg THEN Integer_from_bytes(Opcode["LDARG0"]) + index
                 ELSE IF local THEN Integer_from_bytes(Opcode["LDLOC0"]) + index
                 ELSE Integer_from_bytes(Opcode["LDSFLD0"]) + index
         IN Opcode_by_value(Integer_to_byte_array(opcode_value))
    ELSE IF is_arg THEN "LDARG"
    ELSE IF local THEN "LDLOC"
    ELSE "LDSFLD"

(* Opcode.get_load *)
get_load(index, local, is_arg) ==
    LET argument == IF ~local THEN FALSE ELSE is_arg
    IN IF 0 <= index /\ index <= 6
       THEN LET opcode_value ==
                    IF argument THEN Integer_from_bytes(Opcode["LDARG0"]) + index
                    ELSE IF local THEN Integer_from_bytes(Opcode["LDLOC0"]) + index
                    ELSE Integer_from_bytes(Opcode["LDSFLD0"]) + index
            IN Opcode_by_value(Integer_to_byte_array(opcode_value))
       ELSE IF argument THEN "LDARG"
       ELSE IF local THEN "LDLOC"
       ELSE "LDSFLD"

(* get_store and get_load on indexes below, in and above 0 .. 6 *)

MaxIndex == 9

InitOpcode ==
    /\ tree = <<>>
    /\ symbols = EmptyDict
    /\ modules = EmptyDict
    /\ current_method = None
    /\ errors = <<>>
    /\ warnings = <<>>
    /\ pc = [at |-> "call", i |-> 1, j |-> 0]
    /\ raised = NoExc
    /\ visited = {}
    /\ run = 1
    /\ tree0 = <<>>
    /\ tree1 = <<>>
    /\ query \in [index : -MaxIndex .. MaxIndex, local : BOOLEAN, is_arg : BOOLEAN]
    /\ result = None

(* A call of Opcode.get_store(index, local, is_arg) *)
CallGetStore ==
    /\ pc.at = "call"
    /\ result' = get_store(query.index, query.local, query.is_arg)
    /\ pc' = [pc EXCEPT !.at = "get_store"]
    /\ UNCHANGED <<tree, symbols, modules, current_method, errors, warnings, raised,
                   visited, run, tree0, tree1, query>>

(* A call of Opcode.get_load(index, local, is_arg) *)
CallGetLoad ==
    /\ pc.at = "call"
    /\ result' = get_load(query.index, query.local, query.is_arg)
    /\ pc' = [pc EXCEPT !.at = "get_load"]
    /\ UNCHANGED <<tree, symbols, modules, current_method, errors, warnings, raised,
                   visited, run, tree0, tree1, query>>

NextOpcode ==
    \/ CallGetStore
    \/ CallGetLoad

SpecOpcode == InitOpcode /\ [][NextOpcode]_vars

-----------------------------------------------------------------------------
(* Vocabulary of the properties *)

IsPrefix(p, q) == Len(p) <= Len(q) /\ SubSeq(q, 1, Len(p)) = p

At(node, pos) == [node |-> node, pos |-> pos]

(* The children of a node, each with its coordinates *)
children(node, pos) ==
    CASE node.kind = "BinOp" -> {At(node.left, pos \o <<1>>), At(node.right, pos \o <<2>>)}
      [] node.kind = "UnaryOp" -> {At(node.operand, pos \o <<1>>)}
      [] node.kind = "Compare" ->
            {At(node.left, pos \o <<0>>)}
            \cup {At(node.comparators[i], pos \o <<i>>) : i \in DOMAIN node.comparators}
      [] node.kind = "BoolOp" -> {At(node.values[i], pos \o <<i>>) : i \in DOMAIN node.values}
      [] node.kind = "IfExp" ->
            {At(node.test, pos \o <<0>>), At(node.body, pos \o <<1>>), At(node.orelse, pos \o <<2>>)}
      [] node.kind = "Tuple" -> {At(node.elts[i], pos \o <<i>>) : i \in DOMAIN node.elts}
      [] node.kind \in {"Expr", "Return"} -> {At(node.value, pos \o <<1>>)}
      [] node.kind = "Assign" ->
            {At(node.targets[i], pos \o <<0, i>>) : i \in DOMAIN node.targets}
            \cup {At(node.value, pos \o <<1>>)}
      [] node.kind \in {"While", "If"} ->
            {At(node.test, pos \o <<0>>)}
            \cup {At(node.body[i], pos \o <<1, i>>) : i \in DOMAIN node.body}
            \cup {At(node.orelse[i], pos \o <<2, i>>) : i \in DOMAIN node.orelse}
      [] node.kind = "FunctionDef" ->
            {At(node.args[i], pos \o <<0, i>>) : i \in DOMAIN node.args}
            \cup {At(node.body[i], pos \o <<i>>) : i \in DOMAIN node.body}
      [] node.kind = "arg" -> {At(node.annotation, pos \o <<1>>)}
      [] OTHER -> {}

(* Every node of the subtree of a node, with its coordinates *)
RECURSIVE subnodes(_, _)
subnodes(node, pos) ==
    {At(node, pos)} \cup UNION {subnodes(ch.node, ch.pos) : ch \in children(node, pos)}

AllNodes(t) == UNION {subnodes(t[i], <<i>>) : i \in DOMAIN t}

(* The method in whose body the node at pos lies *)
MethodAt(t, pos) ==
    IF t[pos[1]].kind = "FunctionDef" /\ Len(pos) >= 2 /\ pos[2] >= 1
    THEN symbols[t[pos[1]].name] ELSE None

(* The operands of a Compare or BoolOp node, left to right *)
operands(node) ==
    IF node.kind = "Compare" THEN <<node.left>> \o node.comparators ELSE node.values

(* The operator slot applied to operands i and i + 1 of a Compare or BoolOp *)
slot(node, i) == IF node.kind = "Compare" THEN node.ops[i] ELSE node.op

(* The type of an expression: of a rewritten operator node the result type  *)
(* of its Operation, otherwise the type the registry gives it, "error"      *)
(* when there is none                                                       *)
RECURSIVE type_of(_, _)
type_of(cm, e) ==
    CASE e.kind = "Name" -> get_type(cm, [k |-> "Name", id |-> e.id])
      [] e.kind = "Num" -> IF e.n = "int" THEN "int" ELSE "error"
      [] e.kind = "Str" -> "str"
      [] e.kind = "NameConstant" -> IF e.value = "None" THEN "none" ELSE "bool"
      [] e.kind = "BinOp" ->
            IF e.op.tag = "Operation" THEN BinaryOperation[e.op.name].result
            ELSE LET lt == type_of(cm, e.left)
                     rt == type_of(cm, e.right)
                     o == BinaryOp_validate_type(get_operator(e.op), lt, rt)
                 IN IF "error" \in {lt, rt} \/ o = NoneOperator THEN "error"
                    ELSE IF ~BinaryOperation[o].is_supported THEN "error"
                    ELSE BinaryOperation[o].result
      [] e.kind = "UnaryOp" ->
            IF e.op.tag = "Operation" THEN UnaryOperation[e.op.name].result
            ELSE LET t == type_of(cm, e.operand)
                     o == UnaryOp_validate_type(get_operator(e.op), t)
                 IN IF t = "error" \/ o = NoneOperator THEN "error"
                    ELSE IF ~UnaryOperation[o].is_supported THEN "error"
                    ELSE UnaryOperation[o].result
      [] e.kind \in {"Compare", "BoolOp"} ->
            LET xs == operands(e)
            IN IF e.kind = "Compare" /\ Len(e.ops) # Len(e.comparators) THEN "error"
               ELSE IF \A i \in 1..(Len(xs) - 1) :
                         \/ slot(e, i).tag = "Operation"
                         \/ LET o == BinaryOp_validate_type(get_operator(slot(e, i)),
                                                            type_of(cm, xs[i]), type_of(cm, xs[i + 1]))
                            IN o # NoneOperator /\ BinaryOperation[o].is_supported
               THEN "bool" ELSE "error"
      [] OTHER -> "none"

(* The node applies an operator of the vocabulary to operands that have a   *)
(* type, and the registry holds no operation of the operator for them       *)
IllTyped(cm, n) ==
    CASE n.kind = "BinOp" ->
            /\ get_operator(n.op) # NoneOperator
            /\ "error" \notin {type_of(cm, n.left), type_of(cm, n.right)}
            /\ BinaryOp_validate_type(get_operator(n.op), type_of(cm, n.left), type_of(cm, n.right))
                  = NoneOperator
      [] n.kind = "UnaryOp" ->
            /\ get_operator(n.op) # NoneOperator
            /\ type_of(cm, n.operand) # "error"
            /\ UnaryOp_validate_type(get_operator(n.op), type_of(cm, n.operand)) = NoneOperator
      [] n.kind \in {"Compare", "BoolOp"} ->
            /\ n.kind = "Compare" => Len(n.ops) = 1 /\ Len(n.comparators) = 1
            /\ Len(operands(n)) = 2
            /\ get_operator(slot(n, 1)) # NoneOperator
            /\ "error" \notin {type_of(cm, operands(n)[1]), type_of(cm, operands(n)[2])}
            /\ BinaryOp_validate_type(get_operator(slot(n, 1)),
                                      type_of(cm, operands(n)[1]), type_of(cm, operands(n)[2]))
                  = NoneOperator
      [] OTHER -> FALSE

(* The expression is built of operator applications over names and integer  *)
(* literals, every operator is of the vocabulary, every Compare and BoolOp  *)
(* has two operands, and no application resolves to an unsupported operation *)
OperatorsOnly(cm, e) ==
    \A x \in subnodes(e, <<>>) :
        LET n == x.node
        IN /\ n.kind \in {"Name", "Num", "BinOp", "UnaryOp", "Compare", "BoolOp"}
           /\ n.kind = "Num" => n.n = "int"
           /\ n.kind \in {"BinOp", "UnaryOp", "BoolOp"} => get_operator(n.op) # NoneOperator
           /\ n.kind = "Compare" =>
                 /\ Len(n.ops) = 1 /\ Len(n.comparators) = 1
                 /\ get_operator(n.ops[1]) # NoneOperator
           /\ n.kind = "BoolOp" => Len(n.values) = 2
           /\ n.kind \in {"BinOp", "UnaryOp", "Compare", "BoolOp"} =>
                 (type_of(cm, n) = "error" =>
                     \/ IllTyped(cm, n)
                     \/ \E ch \in children(n, <<>>) : type_of(cm, ch.node) = "error")

(* The walk is over: the constructor returned or an exception left it *)
Ended == pc.at \in {"done", "raised"}

(* The only statement of the body of the first function, as handed over *)
TheStatement == tree0[1].body[1]
OneStatement == Len(tree0) = 1 /\ Len(tree0[1].body) = 1

-----------------------------------------------------------------------------
(* Properties *)

(* The statement a coordinate lies in: <<i, j>> for statement j of the body *)
(* of the function at top-level index i, <<i>> otherwise                    *)
StatementOf(p) == IF Len(p) >= 2 /\ p[2] >= 1 THEN <<p[1], p[2]>> ELSE <<p[1]>>

(* The statements after statement p: the later statements of its function   *)
(* body and the later top-level statements of the module                    *)
LaterStatements(p) ==
    {<<i>> : i \in (p[1] + 1)..Len(tree0)}
    \cup (IF Len(p) = 2 THEN {<<p[1], j>> : j \in (p[2] + 1)..Len(tree0[p[1]].body)} ELSE {})

(* The visit of statement q, taken alone, logs an error *)
WouldLog(q) ==
    IF Len(q) = 2
    THEN visit(symbols[tree0[q[1]].name], tree0[q[1]].body[q[2]], q).errs # <<>>
    ELSE tree0[q[1]].kind # "FunctionDef" /\ visit(None, tree0[q[1]], q).errs # <<>>

(* C1: once the walk of a statement has logged an error, every later        *)
(* statement of the same function body and every later top-level statement  *)
(* of the module is visited, and a later statement whose visit logs an      *)
(* error has that error in the errors list.                                 *)
C1_WalkResumesAtNextStatement ==
    (run = 1 /\ Ended /\ errors # <<>>) =>
        \A q \in LaterStatements(StatementOf(errors[1].pos)) :
            /\ q \in visited
            /\ WouldLog(q) => \E k \in DOMAIN errors : IsPrefix(q, errors[k].pos)

(* C2: the walk of an expression in which exactly one operator application  *)
(* is ill-typed, and nothing else is at fault, adds exactly one entry to    *)
(* the errors list, also when that application is an operand of a Compare   *)
(* or BoolOp node.                                                          *)
C2_NoCascadeAmplification ==
    (run = 1 /\ Ended /\ OneStatement /\ TheStatement.kind = "Expr") =>
        LET cm == symbols["f"]
            e == TheStatement.value
        IN (/\ OperatorsOnly(cm, e)
            /\ Cardinality({x \in subnodes(e, <<>>) : IllTyped(cm, x.node)}) = 1)
           => Len(errors) = 1

(* The left and the right operand of an operator node at pos *)
LeftOperand(n, pos) ==
    CASE n.kind = "BinOp" -> At(n.left, pos \o <<1>>)
      [] n.kind = "Compare" -> At(n.left, pos \o <<0>>)
      [] n.kind = "BoolOp" -> At(n.values[1], pos \o <<1>>)
RightOperand(n, pos) ==
    CASE n.kind = "BinOp" -> At(n.right, pos \o <<2>>)
      [] n.kind = "Compare" -> At(n.comparators[1], pos \o <<1>>)
      [] n.kind = "BoolOp" -> At(n.values[2], pos \o <<2>>)

(* C3: when the left operand and the right operand of an operator node      *)
(* would each produce a diagnostic, the first error recorded by the walk of *)
(* the node belongs to the left operand.                                    *)
C3_LeftOperandReportedFirst ==
    (run = 1 /\ Ended /\ OneStatement /\ TheStatement.kind = "Expr"
       /\ TheStatement.value.kind \in {"BinOp", "Compare", "BoolOp"}
       /\ (TheStatement.value.kind = "Compare" =>
              Len(TheStatement.value.ops) = Len(TheStatement.value.comparators))) =>
        LET cm == symbols["f"]
            l == LeftOperand(TheStatement.value, <<1, 1, 1>>)
            r == RightOperand(TheStatement.value, <<1, 1, 1>>)
        IN (visit(cm, l.node, l.pos).errs # <<>> /\ visit(cm, r.node, r.pos).errs # <<>>)
           => (errors # <<>> /\ IsPrefix(l.pos, errors[1].pos))

(* The operator slot i of the node holds an Operation of the registry that  *)
(* is supported and whose validate_type accepts the types of its operands   *)
SoundSlot(cm, n, i) ==
    CASE n.kind = "UnaryOp" ->
            /\ n.op.tag = "Operation"
            /\ n.op.name \in DOMAIN UnaryOperation
            /\ UnaryOperation[n.op.name].is_supported
            /\ UnaryOperation[n.op.name].operand = type_of(cm, n.operand)
      [] n.kind = "BinOp" ->
            /\ n.op.tag = "Operation"
            /\ n.op.name \in DOMAIN BinaryOperation
            /\ BinaryOperation[n.op.name].is_supported
            /\ Operation_validate_type(n.op.name, <<type_of(cm, n.left), type_of(cm, n.right)>>)
      [] n.kind \in {"Compare", "BoolOp"} ->
            /\ slot(n, i).tag = "Operation"
            /\ slot(n, i).name \in DOMAIN BinaryOperation
            /\ BinaryOperation[slot(n, i).name].is_supported
            /\ Operation_validate_type(slot(n, i).name,
                    <<type_of(cm, operands(n)[i]), type_of(cm, operands(n)[i + 1])>>)

(* The operator slots of a node *)
Slots(n) ==
    CASE n.kind \in {"BinOp", "UnaryOp"} -> {1}
      [] n.kind \in {"Compare", "BoolOp"} -> 1..(Len(operands(n)) - 1)
      [] OTHER -> {}

(* C4: when the analysis ends with an empty errors list, every operator     *)
(* node of the AST, wherever it occurs, has its slot holding a supported    *)
(* Operation whose validate_type accepts the types of the operands.         *)
C4_Soundness ==
    (run = 1 /\ pc.at = "done" /\ errors = <<>>) =>
        \A x \in AllNodes(tree) : \A i \in Slots(x.node) :
            SoundSlot(MethodAt(tree, x.pos), x.node, i)

(* C5: a second analysis of a tree that a first, error-free analysis        *)
(* rewrote leaves the tree as it was and ends with the same empty           *)
(* diagnostics.                                                             *)
C5_IdempotentReanalysis ==
    (run = 2 /\ Ended) => (tree = tree1 /\ errors = <<>> /\ raised = NoExc)

(* C6: get_symbol returns the local symbol of the current method when there *)
(* is one, otherwise the modules entry when there is one, otherwise the     *)
(* global symbol when there is one, otherwise None.                         *)
C6_ScopePrecedence ==
    query # "" =>
        LET inLocals == current_method # None /\ query \in DOMAIN current_method.symbols
            inModules == query \in DOMAIN modules
            inGlobals == query \in DOMAIN symbols
        IN /\ inLocals => result = LocalSymbol(query)
           /\ (~inLocals /\ inModules) => result = ModuleSymbol(query)
           /\ (~inLocals /\ ~inModules /\ inGlobals) => result = GlobalSymbol(query)
           /\ (~inLocals /\ ~inModules /\ ~inGlobals) => result = None

(* An identifier present in all three scopes was resolved to the local symbol *)
C6_Witness ==
    /\ query # ""
    /\ current_method # None
    /\ query \in DOMAIN current_method.symbols
    /\ query \in DOMAIN modules
    /\ query \in DOMAIN symbols
    /\ result = LocalSymbol(query)

(* The constructs of the error table in a tree, each as the kind of its     *)
(* diagnostic and the coordinates of the node                               *)
Offences(t) ==
    LET N == AllNodes(t)
    IN {<<"InvalidType", x.pos>> : x \in {y \in N : y.node.kind = "Num" /\ y.node.n # "int"}}
       \cup {<<"TypeHintMissing", x.pos>> :
                x \in {y \in N : y.node.kind = "arg" /\ y.node.annotation = Absent}}
       \cup {<<"TooManyReturns", x.pos>> :
                x \in {y \in N : y.node.kind = "Return" /\ y.node.value.kind = "Tuple"}}
       \cup {<<"MismatchedTypes", x.pos>> :
                x \in {y \in N : /\ y.node.kind \in {"While", "If", "IfExp"}
                                 /\ type_of(MethodAt(t, y.pos), y.node.test) \notin {"bool", "error"}}}
       \cup {<<"MismatchedTypes", x.pos>> :
                x \in {y \in N : IllTyped(MethodAt(t, y.pos), y.node)}}

(* C7: for every construct of the error table in the AST, wherever it       *)
(* occurs and whatever precedes it, the final errors list holds a           *)
(* diagnostic of the matching kind with the coordinates of that node.       *)
C7_CompletenessOfReporting ==
    (run = 1 /\ Ended /\ raised # NotImplementedError) =>
        \A o \in Offences(tree0) :
            \E k \in DOMAIN errors : errors[k].kind = o[1] /\ errors[k].pos = o[2]

(* C8: the operator list of a Compare node is never partially rewritten:    *)
(* either every entry holds an Operation or every entry holds its syntactic *)
(* operator.                                                                *)
C8_NoPartialRewrite ==
    \A x \in AllNodes(tree) :
        x.node.kind = "Compare" =>
            \/ \A i \in DOMAIN x.node.ops : x.node.ops[i].tag = "Operation"
            \/ \A i \in DOMAIN x.node.ops : x.node.ops[i].tag = "ast"

(* C9: current_method is None in every state that is not inside the walk of *)
(* a function body, also once the walk was ended by a logged error or a     *)
(* fatal sentinel.                                                          *)
C9_CurrentMethodOnlyInBody == pc.at # "body" => current_method = None

(* The entries of the errors list that are a TypeHintMissing for symbol_id *)
TypeHintMissingFor(symbol_id) ==
    {k \in DOMAIN errors : errors[k].kind = "TypeHintMissing" /\ errors[k].info = <<symbol_id>>}

(* C10: the walk of a function definition records exactly one               *)
(* TypeHintMissing for every formal argument without annotation, and one    *)
(* more for the method when the body returns a value while the declared     *)
(* return type is none.                                                     *)
C10_OneTypeHintMissingPerArgument ==
    (run = 1 /\ Ended /\ raised # NotImplementedError) =>
        LET function == tree0[1]
        IN /\ \A i \in DOMAIN function.args :
                 function.args[i].annotation = Absent =>
                     Cardinality(TypeHintMissingFor(function.args[i].arg)) = 1
           /\ (/\ function.returns = "none"
               /\ \E j \in DOMAIN function.body :
                     /\ function.body[j].kind = "Return"
                     /\ function.body[j].value.kind \notin {"Absent", "Tuple"})
              => Cardinality(TypeHintMissingFor(function.name)) >= 1

(* The entries of the errors list that carry the coordinates pos, in order *)
ErrorsAt(pos) ==
    LET IsAt(e) == e.pos = pos
    IN SelectSeq(errors, IsAt)

(* The one statement of the body has been walked by the first analysis *)
StatementWalked == run = 1 /\ OneStatement /\ <<1, 1>> \in visited

(* The diagnostic a return statement at pos is to get in a method called    *)
(* name whose declared return type is declared, by the priority of the      *)
(* classification; the empty sequence when it is to get none                *)
ExpectedOfReturn(ret, declared, name, pos) ==
    IF ret.value # Absent /\ ret.value.kind = "Tuple"
    THEN <<Error("TooManyReturns", pos, <<>>)>>
    ELSE IF ret.value # Absent /\ declared = "none"
    THEN <<Error("TypeHintMissing", pos, <<name>>)>>
    ELSE IF ret.value = Absent /\ declared # "none"
    THEN <<Error("MismatchedTypes", pos, [expected |-> <<declared>>, actual |-> <<"none">>])>>
    ELSE <<>>

(* C11: a return statement gets the one diagnostic of its classification    *)
(* (tuple value, then value without declared return type, then no value     *)
(* with a declared return type), at the coordinates of the return, and      *)
(* nothing else at those coordinates; when it gets none, the returned       *)
(* expression is walked.                                                    *)
C11_ReturnClassification ==
    (StatementWalked /\ TheStatement.kind = "Return") =>
        LET cm == symbols["f"]
            expected == ExpectedOfReturn(TheStatement, tree0[1].returns, "f", <<1, 1>>)
        IN /\ ErrorsAt(<<1, 1>>) = expected
           /\ (expected = <<>> /\ TheStatement.value # Absent) =>
                 /\ errors = visit(cm, TheStatement.value, <<1, 1, 1>>).errs
                 /\ tree[1].body[1].value = visit(cm, TheStatement.value, <<1, 1, 1>>).node

(* A tuple returned from a method without declared return type got          *)
(* TooManyReturns, the first test of the classification                     *)
C11_Witness ==
    /\ StatementWalked
    /\ TheStatement.kind = "Return"
    /\ TheStatement.value.kind = "Tuple"
    /\ tree0[1].returns = "none"
    /\ errors = <<Error("TooManyReturns", <<1, 1>>, <<>>)>>

(* The value of the one statement, an expression statement, and where it is *)
TheExpression == TheStatement.value
ExpressionPos == <<1, 1, 1>>

(* C12: Plus applied to two str operands type-checks as Concat, with result  *)
(* type str, and Concat is not supported: the walk logs exactly one          *)
(* NotSupportedOperation carrying Plus at the coordinates of the BinOp, no   *)
(* MismatchedTypes, and the operator slot keeps the syntactic operator.      *)
C12_ConcatTypedNotSupported ==
    (/\ StatementWalked
     /\ TheStatement.kind = "Expr"
     /\ TheExpression.kind = "BinOp"
     /\ get_operator(TheExpression.op) = "Plus"
     /\ type_of(symbols["f"], TheExpression.left) = "str"
     /\ type_of(symbols["f"], TheExpression.right) = "str") =>
        /\ BinaryOp_validate_type("Plus", "str", "str") = "Concat"
        /\ Concat_validate_type(<<"str", "str">>)
        /\ BinaryOperation["Concat"].result = "str"
        /\ ~BinaryOperation["Concat"].is_supported
        /\ errors = <<Error("NotSupportedOperation", ExpressionPos, <<"Plus">>)>>
        /\ tree[1].body[1].value.op = TheExpression.op

(* The walk of s + s ended with the one NotSupportedOperation *)
C12_Witness ==
    /\ StatementWalked
    /\ TheStatement = Expr(BinOp(s, "Add", s))
    /\ errors = <<Error("NotSupportedOperation", ExpressionPos, <<"Plus">>)>>
    /\ tree[1].body[1].value.op = AstOp("Add")

(* C13: when the registry holds no operation of the operator for the types  *)
(* of the operands, visit_BinOp and visit_UnaryOp log a                     *)
(* NotSupportedOperation carrying the operator at the coordinates of the    *)
(* operator node.                                                           *)
C13_NoOperationIsNotSupported ==
    (/\ StatementWalked
     /\ TheStatement.kind = "Expr"
     /\ TheExpression.kind \in {"BinOp", "UnaryOp"}
     /\ OperatorsOnly(symbols["f"], TheExpression)
     /\ IllTyped(symbols["f"], TheExpression)) =>
        errors = <<Error("NotSupportedOperation", ExpressionPos,
                         <<get_operator(TheExpression.op)>>)>>


(* What a visited operand of a subscript stands for: the symbol of a name,  *)
(* the value itself otherwise                                               *)
Stands(cm, val) == IF val.k = "Name" THEN get_symbol(cm, val.id) ELSE val

(* C14: visit_Subscript on operands that were walked without error has      *)
(* exactly one of four outcomes: both sides are Types, and it logs nothing  *)
(* and returns the outer Type; otherwise the type of the value is no        *)
(* SequenceType, and it logs UnresolvedOperation(Subscript, that type);     *)
(* otherwise the type of the index is not the valid key, and it logs        *)
(* MismatchedTypes(actual = index type, expected = valid_key) at the        *)
(* coordinates of the subscript; otherwise it logs nothing and returns the  *)
(* value_type of the sequence.                                              *)
C14_SubscriptOutcomes ==
    (/\ pc.at # "call"
     /\ tree0[1].kind = "Subscript"
     /\ visit(current_method, tree0[1].value, <<1, 1>>).exc = NoExc
     /\ visit(current_method, tree0[1].slice, <<1, 2>>).exc = NoExc) =>
        LET value == Stands(current_method, visit(current_method, tree0[1].value, <<1, 1>>).val)
            index == Stands(current_method, visit(current_method, tree0[1].slice, <<1, 2>>).val)
            value_type == get_type(current_method, value)
            index_type == get_type(current_method, index)
            types == value.k = "IType" /\ index.k = "IType"
            no_sequence == ~types /\ value_type \notin DOMAIN SequenceType
            bad_key == ~types /\ ~no_sequence /\ index_type # SequenceType[value_type].valid_key
        IN /\ types => (errors = <<>> /\ raised = NoExc /\ result = value)
           /\ no_sequence =>
                 errors = <<Error("UnresolvedOperation", <<1>>,
                                  [type_id |-> value_type, operation_id |-> "Subscript"])>>
           /\ bad_key =>
                 errors = <<Error("MismatchedTypes", <<1>>,
                                  [expected |-> <<SequenceType[value_type].valid_key>>,
                                   actual |-> <<index_type>>])>>
           /\ (~types /\ ~no_sequence /\ ~bad_key) =>
                 (errors = <<>> /\ raised = NoExc
                    /\ result = IType(SequenceType[value_type].value_type))

(* xs[s] for xs a sequence of int and s a str got the one MismatchedTypes *)
C14_Witness ==
    /\ pc.at # "call"
    /\ tree0 = <<Subscript(Name("xs"), Index(Name("s")))>>
    /\ current_method # None
    /\ errors = <<Error("MismatchedTypes", <<1>>, [expected |-> <<"int">>, actual |-> <<"str">>])>>


(* The one statement and where it is; the same statement as the walk left it *)
StatementPos == <<1, 1>>
StatementNow == tree[1].body[1]

(* The outcome of the visit of a node taken alone in the method f *)
Alone(node, pos) == visit(symbols["f"], node, pos)

(* The type the analyser finds for the test of a While or If statement *)
TestType(st) == get_type(symbols["f"], Alone(st.test, StatementPos \o <<0>>).val)

(* No statement of the body or of the else branch raises when taken alone *)
Quiet(st) ==
    /\ \A i \in DOMAIN st.body : Alone(st.body[i], StatementPos \o <<1, i>>).exc = NoExc
    /\ \A j \in DOMAIN st.orelse : Alone(st.orelse[j], StatementPos \o <<2, j>>).exc = NoExc

(* Every statement of the body, of the else branch, is as its visit leaves it *)
BodyWalked(st, now) ==
    \A i \in DOMAIN st.body : now.body[i] = Alone(st.body[i], StatementPos \o <<1, i>>).node
ElseWalked(st, now) ==
    \A j \in DOMAIN st.orelse : now.orelse[j] = Alone(st.orelse[j], StatementPos \o <<2, j>>).node

(* The else branch is a single If statement *)
IsElif(st) == st.kind = "If" /\ Len(st.orelse) = 1 /\ st.orelse[1].kind = "If"

(* The one statement is a While or If whose test is walked without error *)
TestedStatement ==
    /\ StatementWalked
    /\ TheStatement.kind \in {"While", "If"}
    /\ Alone(TheStatement.test, StatementPos \o <<0>>).exc = NoExc

(* A test of another type than bool gets the one MismatchedTypes at the     *)
(* coordinates of the statement, a test of type bool gets no diagnostic,    *)
(* and an error of a body statement comes before any of the else branch     *)
TestChecked(st) ==
    /\ TestType(st) # "bool" =>
          errors = <<Error("MismatchedTypes", StatementPos,
                           [expected |-> <<"bool">>, actual |-> <<TestType(st)>>])>>
    /\ TestType(st) = "bool" =>
          /\ ErrorsAt(StatementPos) = <<>>
          /\ (\E i \in DOMAIN st.body : Alone(st.body[i], StatementPos \o <<1, i>>).errs # <<>>) =>
                (errors # <<>> /\ IsPrefix(StatementPos \o <<1>>, errors[1].pos))

MultipleAssignment(assign) == Len(assign.targets) > 1 \/ assign.targets[1].kind = "Tuple"

(* C16: an assignment with more than one target, or whose first target is a *)
(* tuple, logs NotSupportedOperation("Multiple variable assignments") at    *)
(* its coordinates, exactly once also when both hold; an assignment with a  *)
(* single target that is no tuple logs nothing itself and its value is      *)
(* walked.                                                                  *)
C16_MultipleAssignments ==
    (StatementWalked /\ TheStatement.kind = "Assign") =>
        /\ MultipleAssignment(TheStatement) =>
              errors = <<Error("NotSupportedOperation", StatementPos,
                               <<"Multiple variable assignments">>)>>
        /\ ~MultipleAssignment(TheStatement) =>
              /\ ErrorsAt(StatementPos) = <<>>
              /\ errors = Alone(TheStatement.value, StatementPos \o <<1>>).errs
              /\ StatementNow.value = Alone(TheStatement.value, StatementPos \o <<1>>).node

(* An assignment with two targets, the first a tuple, got the diagnostic once *)
C16_Witness ==
    /\ StatementWalked
    /\ TheStatement.kind = "Assign"
    /\ Len(TheStatement.targets) > 1
    /\ TheStatement.targets[1].kind = "Tuple"
    /\ Len(errors) = 1
    /\ errors[1].kind = "NotSupportedOperation"


(* The call of visit on the node of the tree has returned or raised *)
Called == pc.at # "call"

(* The type the analyser finds for an operand taken alone at pos *)
OperandType(node, pos) == get_type(current_method, visit(current_method, node, pos).val)

(* C17: when the registry resolves the operator of a BinOp for (type of the *)
(* left operand, type of the right operand) to a supported Operation,       *)
(* visit_BinOp adds no diagnostic, puts exactly that Operation in the       *)
(* operator slot and returns the result type of that Operation.             *)
C17_BinOpRewrittenOnSuccess ==
    (/\ Called
     /\ tree0[1].kind = "BinOp"
     /\ get_operator(tree0[1].op) # NoneOperator
     /\ visit(current_method, tree0[1].left, <<1, 1>>).exc = NoExc
     /\ visit(current_method, tree0[1].right, <<1, 2>>).exc = NoExc) =>
        LET operation == BinaryOp_validate_type(get_operator(tree0[1].op),
                                                OperandType(tree0[1].left, <<1, 1>>),
                                                OperandType(tree0[1].right, <<1, 2>>))
        IN (operation # NoneOperator /\ BinaryOperation[operation].is_supported) =>
              /\ errors = <<>>
              /\ raised = NoExc
              /\ tree[1].op = OperationOp(operation)
              /\ result = IType(BinaryOperation[operation].result)

(* a + b for a and b of type int: the slot holds the integer addition and   *)
(* the type returned is int                                                 *)
C17_Witness ==
    /\ Called
    /\ tree0 = <<BinOp(a, "Add", b)>>
    /\ errors = <<>>
    /\ tree[1].op = OperationOp("Addition")
    /\ result = IType("int")


(* The list new is the list old, or the list old with one entry more at its *)
(* end                                                                      *)
Extended(old, new) ==
    \/ new = old
    \/ Len(new) = Len(old) + 1 /\ SubSeq(new, 1, Len(old)) = old

(* C18: in every step of the walk the errors list and the warnings list are *)
(* each unchanged or extended by exactly one entry at the end (no entry is  *)
(* removed, replaced or reordered), and has_errors is true exactly when the *)
(* errors list is not empty.                                                *)
C18_AppendOnly ==
    /\ [](has_errors(errors) <=> errors # <<>>)
    /\ [][Extended(errors, errors') /\ Extended(warnings, warnings')]_vars

(* Two calls of _log_error in the walk of one statement: the second entry   *)
(* stands behind the first                                                  *)
C18_Witness ==
    /\ pc.at = "stmt"
    /\ pc.calls = 2
    /\ Len(errors) = 2
    /\ errors[1].pos # errors[2].pos
    /\ has_errors(errors)


(* The operands e0 .. eN of a Compare node, and the coordinates of each     *)
(* when the node stands at pos                                              *)
CompareOperand(compare, i) == IF i = 0 THEN compare.left ELSE compare.comparators[i]

CompareOperandPos(pos, i) == pos \o <<i>>

(* The Compare node visited, as it was before the visit *)
TheCompare == tree0[1]

ComparePos == <<1>>

(* The outcome of the visit of operand i of the Compare node taken alone *)
OperandAlone(i) ==
    visit(current_method, CompareOperand(TheCompare, i), CompareOperandPos(ComparePos, i))

(* The Operation the registry resolves for pair i, from the types of        *)
(* e(i-1) and e(i); NoneOperator when there is none                         *)
PairOperation(i) ==
    BinaryOp_validate_type(get_operator(TheCompare.ops[i]),
                           get_type(current_method, OperandAlone(i - 1).val),
                           get_type(current_method, OperandAlone(i).val))

(* Pair i resolves to a supported Operation *)
PairResolves(i) ==
    /\ get_operator(TheCompare.ops[i]) # NoneOperator
    /\ PairOperation(i) # NoneOperator
    /\ BinaryOperation[PairOperation(i)].is_supported

(* A Compare node with as many comparators as operators has been visited,   *)
(* and each of its operands is walked without a diagnostic                  *)
CompareVisited ==
    /\ Called
    /\ TheCompare.kind = "Compare"
    /\ Len(TheCompare.comparators) = Len(TheCompare.ops)
    /\ \A i \in 0 .. Len(TheCompare.ops) : OperandAlone(i).exc = NoExc

(* C19: for a Compare chain in which every adjacent pair resolves to a      *)
(* supported Operation, operator slot i is rewritten to the Operation       *)
(* resolved from (type of e(i-1), type of e(i)), each operand is visited    *)
(* once (it is left as one visit leaves it), no diagnostic is logged and    *)
(* the type returned is the result type of the Operation of the last pair.  *)
C19_CompareChainResolved ==
    (CompareVisited /\ \A i \in 1 .. Len(TheCompare.ops) : PairResolves(i)) =>
        /\ errors = <<>>
        /\ raised = NoExc
        /\ \A i \in 1 .. Len(TheCompare.ops) :
              /\ tree[1].ops[i] = OperationOp(PairOperation(i))
              /\ tree[1].comparators[i] = OperandAlone(i).node
        /\ tree[1].left = OperandAlone(0).node
        /\ result = IType(BinaryOperation[PairOperation(Len(TheCompare.ops))].result)

(* a < a < a: both slots hold the integer comparison and bool is returned *)
C19_Witness ==
    /\ Called
    /\ TheCompare = Compare(a, <<"Lt", "Lt">>, <<a, a>>)
    /\ tree[1].ops = <<OperationOp("LessThan"), OperationOp("LessThan")>>
    /\ errors = <<>>
    /\ result = IType("bool")

(* The diagnostic logged while pair i is resolved, at coordinates at *)
PairDiagnostic(i, at) ==
    IF get_operator(TheCompare.ops[i]) = NoneOperator
    THEN Error("UnresolvedReference", at, <<TheCompare.ops[i].name>>)
    ELSE IF PairOperation(i) = NoneOperator
    THEN Error("MismatchedTypes", at,
               get_bin_op(current_method, get_operator(TheCompare.ops[i]),
                          OperandAlone(i).val, OperandAlone(i - 1).val).info)
    ELSE Error("NotSupportedOperation", at, <<get_operator(TheCompare.ops[i])>>)

(* C20: a diagnostic logged while the first pair of a Compare chain is      *)
(* resolved carries the coordinates of the Compare node, one logged while   *)
(* pair i >= 2 is resolved carries the coordinates of comparator i - 1; a   *)
(* Compare node whose number of comparators differs from its number of      *)
(* operators logs IncorrectNumberOfOperands and nothing else, with no       *)
(* operand visited and no slot rewritten.                                   *)
C20_CompareCoordinates ==
    /\ (CompareVisited /\ \E i \in 1 .. Len(TheCompare.ops) : ~PairResolves(i)) =>
          LET i == CHOOSE k \in 1 .. Len(TheCompare.ops) :
                      ~PairResolves(k) /\ \A h \in 1 .. k - 1 : PairResolves(h)
          IN errors = <<PairDiagnostic(i, IF i = 1 THEN ComparePos
                                          ELSE CompareOperandPos(ComparePos, i - 1))>>
    /\ (/\ Called
        /\ TheCompare.kind = "Compare"
        /\ Len(TheCompare.comparators) # Len(TheCompare.ops)) =>
          /\ errors = <<Error("IncorrectNumberOfOperands", ComparePos,
                              <<Len(TheCompare.ops), Len(TheCompare.comparators) + 1>>)>>
          /\ tree[1] = TheCompare

(* a < a < s: the second pair does not resolve and its diagnostic stands at *)
(* the first comparator                                                     *)
C20_Witness ==
    /\ Called
    /\ TheCompare = Compare(a, <<"Lt", "Lt">>, <<a, s>>)
    /\ Len(errors) = 1
    /\ errors[1].kind = "MismatchedTypes"
    /\ errors[1].pos = <<1, 1>>

(* The BoolOp node visited, as it was before the visit, and its             *)
(* coordinates                                                              *)
TheBoolOp == tree0[1]

BoolOpPos == <<1>>

(* The outcome of the visit of value i of the BoolOp node taken alone *)
ValueAlone(i) == visit(current_method, TheBoolOp.values[i], BoolOpPos \o <<i>>)

(* The Operation the registry resolves for the pair (v(i-1), v(i)), for     *)
(* i from 2 on; NoneOperator when there is none                             *)
BoolPairOperation(i) ==
    BinaryOp_validate_type(get_operator(TheBoolOp.op),
                           get_type(current_method, ValueAlone(i - 1).val),
                           get_type(current_method, ValueAlone(i).val))

TheIfExp == tree0[1]

(* The outcome of the visit of a sub-expression of the IfExp node taken     *)
(* alone: its test at <<1, 0>>, its body at <<1, 1>>, its else at <<1, 2>>  *)
IfExpTest == visit(current_method, TheIfExp.test, <<1, 0>>)

IfExpBody == visit(current_method, TheIfExp.body, <<1, 1>>)

IfExpOrElse == visit(current_method, TheIfExp.orelse, <<1, 2>>)

(* C22: for an IfExp node whose test has type bool the body and then the    *)
(* else sub-expression are walked: the diagnostics are those of the body,   *)
(* followed when the body logs none by those of the else sub-expression,    *)
(* and a sub-expression walked without a diagnostic is left as its visit    *)
(* leaves it (operators rewritten).                                         *)
C22_IfExpBranchesWalked ==
    (/\ Called
     /\ TheIfExp.kind = "IfExp"
     /\ IfExpTest.exc = NoExc
     /\ get_type(current_method, IfExpTest.val) = "bool") =>
        /\ errors = IF IfExpBody.exc # NoExc THEN IfExpBody.errs ELSE IfExpOrElse.errs
        /\ IfExpBody.exc = NoExc => tree[1].body = IfExpBody.node
        /\ (IfExpBody.exc = NoExc /\ IfExpOrElse.exc = NoExc) => tree[1].orelse = IfExpOrElse.node


(* The first statement of the body of f has been visited, in the first run *)
FirstStatementWalked == run = 1 /\ <<1, 1>> \in visited

(* A break or a continue statement *)
IsJump(node) == node.kind \in {"Break", "Continue"}

(* The statement is a break or continue, or a While statement with a test   *)
(* of type bool whose body begins with one                                  *)
ReachesJump(st) ==
    \/ IsJump(st)
    \/ /\ st.kind = "While"
       /\ Alone(st.test, StatementPos \o <<0>>).exc = NoExc
       /\ TestType(st) = "bool"
       /\ Len(st.body) > 0
       /\ IsJump(st.body[1])

(* The outcome of the walk of the statements of the body of st, in order *)
BodyAlone(st) == visit_list(symbols["f"], st.body, StatementPos \o <<1>>, 1)

(* NotImplementedError has left the walk at the first statement of f: the   *)
(* walk is over and nothing after that statement was visited or rewritten   *)
Aborted ==
    /\ raised = NotImplementedError
    /\ pc.at = "raised"
    /\ visited \subseteq {<<1>>, <<1, 1>>}
    /\ \A j \in 2 .. Len(tree0[1].body) : tree[1].body[j] = tree0[1].body[j]
    /\ \A k \in 2 .. Len(tree0) : tree[k] = tree0[k]

(* C23: a break or continue statement, and an If statement whose else       *)
(* branch is a single If statement, abort the whole walk without a          *)
(* diagnostic for the construct; the elif aborts after the test of the      *)
(* outer If has been checked and the statements of its body have been       *)
(* walked; no statement after the sentinel is visited.                      *)
C23_FatalSentinels ==
    FirstStatementWalked =>
        /\ ReachesJump(TheStatement) =>
              /\ Aborted
              /\ errors = <<>>
              /\ TheStatement.kind = "While" =>
                    /\ \A i \in 2 .. Len(TheStatement.body) :
                          StatementNow.body[i] = TheStatement.body[i]
                    /\ StatementNow.orelse = TheStatement.orelse
        /\ (IsElif(TheStatement) /\ Alone(TheStatement.test, StatementPos \o <<0>>).exc = NoExc) =>
              IF TestType(TheStatement) # "bool"
              THEN /\ raised.kind = "MismatchedTypes"
                   /\ errors = <<Error("MismatchedTypes", StatementPos,
                                       [expected |-> <<"bool">>,
                                        actual |-> <<TestType(TheStatement)>>])>>
              ELSE IF BodyAlone(TheStatement).exc # NoExc
              THEN /\ raised = BodyAlone(TheStatement).exc
                   /\ errors = BodyAlone(TheStatement).errs
              ELSE /\ Aborted
                   /\ errors = <<>>
                   /\ StatementNow.body = BodyAlone(TheStatement).node
                   /\ StatementNow.orelse = TheStatement.orelse

(* An elif after a body whose addition has been rewritten, with a statement *)
(* after the If statement that is never visited                             *)
C23_Witness ==
    /\ FirstStatementWalked
    /\ IsElif(TheStatement)
    /\ TheStatement.body = <<Expr(BinOp(a, "Add", b))>>
    /\ Len(tree0[1].body) = 2
    /\ raised = NotImplementedError
    /\ errors = <<>>
    /\ StatementNow.body[1].value.op = OperationOp("Addition")
    /\ <<1, 2>> \notin visited


RECURSIVE Skeleton(_)
(* The node without the contents of its operator slots and of those of the  *)
(* nodes below it                                                           *)
Skeleton(node) ==
    LET Each(nodes) == [i \in DOMAIN nodes |-> Skeleton(nodes[i])]
    IN CASE node.kind = "BinOp" ->
               [node EXCEPT !.op = NoneSlot, !.left = Skeleton(node.left),
                            !.right = Skeleton(node.right)]
         [] node.kind = "UnaryOp" ->
               [node EXCEPT !.op = NoneSlot, !.operand = Skeleton(node.operand)]
         [] node.kind = "Compare" ->
               [node EXCEPT !.ops = [i \in DOMAIN node.ops |-> NoneSlot],
                            !.left = Skeleton(node.left),
                            !.comparators = Each(node.comparators)]
         [] node.kind = "BoolOp" ->
               [node EXCEPT !.op = NoneSlot, !.values = Each(node.values)]
         [] node.kind = "IfExp" ->
               [node EXCEPT !.test = Skeleton(node.test), !.body = Skeleton(node.body),
                            !.orelse = Skeleton(node.orelse)]
         [] node.kind = "Tuple" -> [node EXCEPT !.elts = Each(node.elts)]
         [] node.kind \in {"Expr", "Return", "Index"} ->
               [node EXCEPT !.value = Skeleton(node.value)]
         [] node.kind = "Subscript" ->
               [node EXCEPT !.value = Skeleton(node.value), !.slice = Skeleton(node.slice)]
         [] node.kind = "Assign" ->
               [node EXCEPT !.targets = Each(node.targets), !.value = Skeleton(node.value)]
         [] node.kind \in {"While", "If"} ->
               [node EXCEPT !.test = Skeleton(node.test), !.body = Each(node.body),
                            !.orelse = Each(node.orelse)]
         [] node.kind = "FunctionDef" ->
               [node EXCEPT !.args = Each(node.args), !.body = Each(node.body)]
         [] node.kind = "arg" -> [node EXCEPT !.annotation = Skeleton(node.annotation)]
         [] OTHER -> node

(* The one statement is an expression statement of a BinOp, UnaryOp or      *)
(* BoolOp node, and the visit of that node has ended with an error: its     *)
(* own, or that of an operand                                               *)
OperatorNodeFailed ==
    /\ StatementWalked
    /\ TheStatement.kind = "Expr"
    /\ TheExpression.kind \in {"BinOp", "UnaryOp", "BoolOp"}
    /\ errors # <<>>

(* C24: when visit_BinOp, visit_UnaryOp or visit_BoolOp logs an error the   *)
(* operator slot of the node is after the visit what it was before, and no  *)
(* visitor adds, removes or replaces a node of the tree other than an       *)
(* operator slot.                                                           *)
C24_OnlyOperatorRewrites ==
    /\ OperatorNodeFailed => StatementNow.value.op = TheExpression.op
    /\ [k \in DOMAIN tree |-> Skeleton(tree[k])] = [k \in DOMAIN tree0 |-> Skeleton(tree0[k])]

(* -s: MismatchedTypes is logged and the slot still holds the syntactic     *)
(* operator                                                                 *)
C24_Witness ==
    /\ OperatorNodeFailed
    /\ TheExpression = UnaryOp("USub", s)
    /\ errors[1].kind = "MismatchedTypes"
    /\ StatementNow.value.op = AstOp("USub")


(* The type of a value that is no node and no identifier: a Type is the     *)
(* type, an Expression symbol has its declared type, any other value has    *)
(* the type the lattice gives it                                            *)
Classified(value) ==
    IF value.k = "IType" THEN value.id
    ELSE IF value.k = "Expression" THEN value.type
    ELSE Type_get_type(value)

(* C25: get_type of a Name node is the type of the symbol get_symbol        *)
(* resolves for its identifier; get_type of a Type is that type, of an      *)
(* Expression symbol its declared type, of any other value the type the     *)
(* lattice gives it; get_type of a string-literal node is str and of an     *)
(* integer-literal node int, whatever the symbol table holds.               *)
C25_GetTypeDispatch ==
    (pc.at = "done" /\ raised = NoExc) =>
        IF "kind" \notin DOMAIN query THEN result = Classified(query)
        ELSE /\ query.kind = "Name" =>
                   result = Classified(get_symbol(current_method, query.id))
             /\ query.kind = "Str" => result = "str"
             /\ (query.kind = "Num" /\ query.n = "int") => result = "int"


(* C26: IntType.is_type_of(v) is true exactly when the runtime type of v is *)
(* int (a bool, a str or None is rejected); IntType.build(v) is the int     *)
(* type when is_type_of(v) and None otherwise; the identifier of the int    *)
(* type is 'int', its abi_type Integer, and the abi_type of a type that     *)
(* does not override it Any.                                                *)
C26_IntType ==
    /\ pc.at = "is_type_of" => (result <=> query.k = "int")
    /\ pc.at = "build" => result = (IF query.k = "int" THEN IType("int") ELSE None)
    /\ IntType_identifier = "int"
    /\ IntType_abi_type = "Integer"
    /\ IType_abi_type = "Any"

(* is_type_of(True) has returned false *)
C26_Witness ==
    /\ pc.at = "is_type_of"
    /\ query = [k |-> "bool", v |-> 1]
    /\ result = FALSE


(* C27: Concat.validate_type returns a boolean for any number of operand    *)
(* types, raising nothing and changing nothing: true exactly for two        *)
(* operand types that are equal and are str, false for any other types and  *)
(* any other count; the result type of the operation is str when the        *)
(* operand types validate and none otherwise.                               *)
C27_ConcatValidateType ==
    /\ pc.at = "validate_type" =>
          /\ result \in BOOLEAN
          /\ result <=> query = <<"str", "str">>
          /\ raised = NoExc
          /\ errors = <<>>
    /\ pc.at = "_get_result" =>
          result = (IF query = <<"str", "str">> THEN "str" ELSE "none")

(* validate_type has accepted two operand types str *)
C27_Witness ==
    /\ pc.at = "validate_type"
    /\ query = <<"str", "str">>
    /\ result = TRUE


(* The byte of a slot opcode *)
Byte(name) == Opcode[name][1]

(* The slot family of a variable: its index-0 and its generic opcode, to    *)
(* store and to load                                                        *)
SlotFamily(local, is_arg) ==
    IF local /\ is_arg
    THEN [st0 |-> "STARG0", st |-> "STARG", ld0 |-> "LDARG0", ld |-> "LDARG"]
    ELSE IF local
    THEN [st0 |-> "STLOC0", st |-> "STLOC", ld0 |-> "LDLOC0", ld |-> "LDLOC"]
    ELSE [st0 |-> "STSFLD0", st |-> "STSFLD", ld0 |-> "LDSFLD0", ld |-> "LDSFLD"]

(* C28: get_store and get_load take the argument family when local and      *)
(* is_arg, the local variable family when local and not is_arg, the static  *)
(* field family when not local; for 0 <= index <= 6 they return the opcode  *)
(* whose byte is the byte of the family's index-0 opcode plus index, for    *)
(* every other index the family's generic opcode; the byte of the store     *)
(* opcode is the byte of the load opcode of the same inputs plus 8.         *)
C28_SlotOpcodes ==
    LET family == SlotFamily(query.local, query.is_arg)
        dedicated == 0 <= query.index /\ query.index <= 6
    IN /\ pc.at = "get_store" =>
             /\ result \in DOMAIN Opcode
             /\ dedicated => Byte(result) = Byte(family.st0) + query.index
             /\ ~dedicated => result = family.st
             /\ Byte(result) = Byte(get_load(query.index, query.local, query.is_arg)) + 8
       /\ pc.at = "get_load" =>
             /\ result \in DOMAIN Opcode
             /\ dedicated => Byte(result) = Byte(family.ld0) + query.index
             /\ ~dedicated => result = family.ld
             /\ Byte(get_store(query.index, query.local, query.is_arg)) = Byte(result) + 8

(* get_load of index 3 of a variable that is not local, with is_arg set:    *)
(* the static field opcode LDSFLD3                                          *)
C28_Witness ==
    /\ pc.at = "get_load"
    /\ query = [index |-> 3, local |-> FALSE, is_arg |-> TRUE]
    /\ result = "LDSFLD3"


=============================================================================
